---- MODULE Spec2Model ----
(***************************************************************************)
(* Speech-to-speech translation broker: the speaker endpoints of           *)
(* backend/main.py (pipeline, retries, outer timeout, shared circuit       *)
(* breaker, shared buffered recogniser) and the ConnectionManager of       *)
(* backend/connection_manager.py.                                          *)
(*                                                                         *)
(* Spec    : two /ws/speak/{stream_id} sessions running concurrently on    *)
(*           one event loop.  A session is suspended at                    *)
(*           an await (receive, an RPC in flight, a retry back-off, a      *)
(*           broadcast); every action is the synchronous code between two  *)
(*           suspensions.                                                  *)
(* SpecWs  : a /ws session and a /ws/speak/{stream_id} session.            *)
(* SpecCM  : the ConnectionManager driven by listener endpoints and by     *)
(*           broadcast callers.                                            *)
(* SpecKA  : the listener endpoints, the keepalive monitor tasks and the   *)
(*           clock of the ConnectionManager.                               *)
(* SpecTr  : the on_transcript callbacks of StreamingSTTService, one per   *)
(*           stream, sharing the translation cache.                        *)
(***************************************************************************)
EXTENDS Integers, Sequences, FiniteSets, TLC

\* ------------------------------------------------------------------ bounds
MaxLen == 2             \* characters of a transcript
MaxTranscripts == 3     \* recognition results delivered in a run
MaxMsgs == 6            \* audio messages received in a run, all sessions
MaxTime == 60           \* the clock stops advancing at this time (seconds)
ClockStep == 15         \* seconds the clock advances by in one step
MaxBufferChunks == 2    \* chunks the shared buffer holds before MAX_SIZE
StartTime == 30         \* time.time() at the start of a run
MaxKaTime == 75         \* the manager's clock stops advancing at this time
KaStep == 5             \* seconds the manager's clock advances by in a step
MaxTasks == 2           \* keepalive monitor tasks created and not yet run
FoStartTime == 30       \* time.time() when the orchestrator is constructed
MaxFoTime == 90         \* the orchestrator's clock stops advancing here
FoStep == 30            \* seconds the orchestrator's clock advances by
MaxConsecutive == 3     \* failures recorded in a row for one stream
MaxSessions == 3        \* StreamingSpeechToText objects constructed in a run
MaxChunks == 2          \* audio chunks handed to send_audio in a run
MaxSmTime == 300        \* the callers' clock stops advancing at this time
SmStep == 150           \* seconds the callers' clock advances by in a step
MaxSent == 52           \* chunks handed to StreamingSession.send_audio
MaxEvents == 4          \* events appended to fallback_history in a run
MaxResults == 5         \* results taken off one response stream
MaxAbChunks == 3        \* chunks held by the AdaptiveStreamBuffer
MaxAbTime == 60         \* the buffer's clock stops advancing here (tenths)
AbStep == 20            \* tenths of a second the buffer's clock advances by
MaxHyCalls == 6         \* process_audio_chunk calls made in a run

\* ------------------------------------------------------- program constants
PingInterval == 30      \* ConnectionManager.PING_INTERVAL
PongTimeout == 10       \* ConnectionManager.PONG_TIMEOUT
FailMax == 5            \* settings.CIRCUIT_BREAKER_FAIL_MAX
ResetTimeout == 30      \* settings.CIRCUIT_BREAKER_RESET_TIMEOUT_S
ApiRetryAttempts == 3   \* settings.API_RETRY_ATTEMPTS
ServiceAttempts == 2    \* stop_after_attempt(2) of the three service calls
FailureThreshold == 3   \* FallbackOrchestrator(failure_threshold=3)
RecoveryInterval == 60  \* FallbackOrchestrator(recovery_interval_seconds=60.0)
MaxRecoveryAttempts == 5 \* FallbackOrchestrator(max_recovery_attempts=5)
RestartDeadline == 280  \* expected_restart_time of test_restart_validation
StopTimeout == 5        \* wait_for(self._streaming_task, timeout=5.0)
QueueMaxSize == 50      \* asyncio.Queue(maxsize=50) of a StreamingSession
HistoryMaxLen == 1000   \* deque(maxlen=1000) of fallback_history
StreamingThreshold == 5000 \* streaming_threshold_bytes
FrequencyThreshold == 8 \* frequency_threshold_per_second
QualityThreshold == 70  \* quality_threshold = 0.7, in hundredths
AnalysisWindow == 50    \* analysis_window_seconds = 5.0, in tenths
BufferedTimeout == 20   \* buffered_timeout_seconds = 2.0, in tenths

Streams == {"A", "B"}
Sockets == {"x1", "x2"}
Bcasts == {"b1", "b2"}
Monitors == {"m1", "m2"}
Data == {"d1"}
SpeakSessions == {"spA", "spB"}
WsSessions == {"ws"}
Sessions == SpeakSessions \cup WsSessions

\* the stream a session publishes to; the /ws session answers on its own
\* socket, named here by a stream of its own
StreamOf(s) == IF s = "spA" THEN "A" ELSE IF s = "spB" THEN "B" ELSE "W"
Origins == Streams \cup {"W"}

VARIABLES
    cb,         \* circuit_breaker: [state, fail_counter, opened_at]
    now,        \* wall clock
    sess,       \* per session: the coroutine's position and locals
    chunks,     \* enhanced_stt_service.smart_buffer.chunks (origin of each)
    nmsgs,      \* audio messages received so far
    run,        \* history: consecutive retry-exhausted messages since start
    last        \* history: summary of the message finished last

pvars == <<cb, now, sess, chunks, nmsgs, run, last>>

VARIABLES
    streams,            \* ConnectionManager._streams: stream_id -> set of sockets
    meta,               \* ConnectionManager._connection_metadata
    keepalive_running,  \* ConnectionManager._keepalive_running
    ktasks,             \* _start_keepalive_monitor tasks created, not yet run
    blocked,            \* the event-loop thread waits for _lock for ever
    closed,             \* sockets whose client_state is DISCONNECTED
    bc,                 \* per broadcast_to_stream call: position and locals
    failedOnce          \* history: <<stream, socket>> whose write failed and
                        \* that was not added again since

cvars == <<streams, meta, keepalive_running, ktasks, blocked, closed, bc,
           failedOnce>>

VARIABLES
    tcache,     \* StreamingSTTService._translation_cache: key -> English text
    ot,         \* per stream: the on_transcript call in progress
    ntr,        \* recognition results delivered to on_transcript so far
    tlast,      \* history: summary of the on_transcript call finished last
    tdone       \* history: key -> English text of the first successful
                \* translation of a transcript with that key

tvars == <<tcache, ot, ntr, tlast, tdone>>

VARIABLES
    time,       \* time.time() as read by the ConnectionManager
    mon,        \* per _start_keepalive_monitor task: position and locals
    lep,        \* per socket: its websocket_listener_endpoint call
    hist        \* history per socket: pings, pongs, removal by keepalive

kvars == <<time, mon, lep, hist>>

VARIABLES
    fnow,           \* time.time() as read by the FallbackOrchestrator
    stream_status,  \* FallbackOrchestrator.stream_status
    last_failure_time, \* FallbackOrchestrator.last_failure_time
    fallback_history,  \* FallbackOrchestrator.fallback_history
    flast,          \* history: the orchestrator call made last and its result
    streak         \* history per stream: streaming errors handled in a row

fvars == <<fnow, stream_status, last_failure_time, fallback_history, flast,
           streak>>

VARIABLES
    mnow,       \* the clock of the StreamManager's callers
    mstreams,   \* StreamManager.streams: stream_id -> session object
    nobj,       \* StreamingSpeechToText objects constructed so far
    obj,        \* per StreamingSpeechToText object: its streaming state
    coro,       \* per caller: its create_stream / close_stream coroutine
    nchunks,    \* audio chunks handed to send_audio so far
    accepted,   \* history: chunks put on a session's _audio_queue
    delivered,  \* history: chunks the request generator yielded
    lost        \* history: chunks cleared from a queue by a replacement

mvars == <<mnow, mstreams, nobj, obj, coro, nchunks, accepted, delivered,
           lost>>

VARIABLES
    state,          \* StreamingSession.state
    is_active,      \* StreamingSession.is_active
    audio_queue,    \* StreamingSession._audio_queue
    chunks_sent,    \* StreamingSession.stats['chunks_sent']
    snd,            \* per sender: its send_audio coroutine
    nsent,          \* chunks handed to send_audio so far
    qlast           \* history: the send_audio call that last made a step

qvars == <<state, is_active, audio_queue, chunks_sent, snd, nsent, qlast>>

VARIABLES
    tally           \* history: for the audio message in hand of the one
                    \* session of SpecRt, the RPCs started per service
                    \* and the add_chunk calls on the STT buffer

rvars == <<tally>>

VARIABLES
    results_taken,  \* results _process_responses has taken off the
                    \* response stream so far
    in_callback,    \* the on_transcript calls not yet returned: number of
                    \* the result -> position of the call and whether
                    \* its translated_text came from the cache
    broadcast_log   \* history: the results whose audio was handed to
                    \* broadcast_callback, in the order of the calls

ovars == <<results_taken, in_callback, broadcast_log>>

VARIABLES
    abnow,      \* time.time() as read by the AdaptiveStreamBuffer, in
                \* tenths of a second
    abuf,       \* the AdaptiveStreamBuffer: current_mode, chunks,
                \* start_time
    ablast      \* history: the add_chunk call made last

avars == <<abnow, abuf, ablast>>

VARIABLES
    hy,         \* the process_audio_chunk call in hand of the
                \* HybridSTTService: where it is suspended and its locals
    hsession,   \* streaming_manager.sessions[stream_id]: the fields of
                \* the StreamingSession stored there
    timings,    \* quality_monitor.timing_history, as the number of its
                \* entries and of those with success
    ncalls,     \* process_audio_chunk calls started so far
    hlast       \* history: the process_audio_chunk call that ended last

hvars == <<hy, hsession, timings, ncalls, hlast>>

vars == <<pvars, cvars, tvars, kvars, fvars, mvars, qvars, rvars, ovars, avars, hvars>>

\* what the speaker endpoints and what the ConnectionManager leave alone
notPipeline == <<cvars, tvars, kvars, fvars, mvars, qvars,
    rvars, ovars, avars, hvars>>
notManager == <<pvars, tvars, kvars, fvars, mvars, qvars,
    rvars, ovars, avars, hvars>>
notKeepalive == <<pvars, tvars, fvars, mvars, qvars,
    rvars, ovars, avars, hvars>>
notTranscript == <<pvars, cvars, kvars, fvars, mvars, qvars,
    rvars, ovars, avars, hvars>>
notOrchestrator == <<pvars, cvars, tvars, kvars, mvars, qvars,
    rvars, ovars, avars, hvars>>
notStreamManager == <<pvars, cvars, tvars, kvars, fvars, qvars,
    rvars, ovars, avars, hvars>>
notSession == <<pvars, cvars, tvars, kvars, fvars, mvars,
    rvars, ovars, avars, hvars>>
notTally == <<cvars, tvars, kvars, fvars, mvars, qvars, ovars, avars, hvars>>
notBuffer == <<pvars, cvars, tvars, kvars, fvars, mvars, qvars, rvars, ovars,
    hvars>>
notResponses == <<pvars, cvars, tvars, kvars, fvars, mvars, qvars, rvars, avars, hvars>>
notHybrid == <<pvars, cvars, tvars, kvars, mvars, qvars, rvars, ovars>>

\* ------------------------------------------------------- circuit breaker
\* pybreaker.CircuitBreaker as instantiated in resilience.py: call(func)
\* under the breaker's lock.  ok says whether func returns or raises.

\* CircuitOpenState.before_call: still inside reset_timeout
CbBlocked(c, t) == c.state = "open" /\ t < c.opened_at + ResetTimeout

\* CircuitBreakerState._handle_success: reset_counter, half-open closes
CbSuccess(c) == [c EXCEPT !.fail_counter = 0, !.state = "closed"]

\* CircuitBreakerState._handle_error: _inc_counter, then on_failure of the
\* state: closed opens at fail_max, half-open always opens
CbTrips(c, n) == c.state = "half-open" \/ n >= FailMax

CbFailure(c, t) ==
    LET n == c.fail_counter + 1 IN
    IF CbTrips(c, n)
    THEN [state |-> "open", fail_counter |-> n, opened_at |-> t]
    ELSE [c EXCEPT !.fail_counter = n]

\* circuit_breaker.call(func)
CbCall(c, t, ok) ==
    IF CbBlocked(c, t) THEN c                       \* CircuitBreakerError
    ELSE LET h == IF c.state = "open"
                  THEN [c EXCEPT !.state = "half-open"]  \* half_open()
                  ELSE c
         IN IF ok THEN CbSuccess(h) ELSE CbFailure(h, t)

\* main.py 542 / 551: circuit_breaker.call(lambda: throw Exception), the
\* CircuitBreakerError it may raise is swallowed
RecordFailure(c, t) == CbCall(c, t, FALSE)

\* main.py 438: the /ws timeout handler calls circuit_breaker.call(lambda: None)
WsRecordTimeout(c, t) == CbCall(c, t, TRUE)

\* main.py 418 / 517: the only test of the breaker before the pipeline
ShortCircuits(c) == c.state = "open"

\* -------------------------------------------------------------- sessions
\* pc, stage, attempt, inner, recov, wake, text: position and locals of the
\* coroutine.  rpcAt: breaker state when the RPC in flight was started.
\* final: recognition yielded a transcript for the message in hand;
\* nb: payloads handed to broadcast_to_stream (speaker) or to
\* websocket.send_bytes (/ws) for the message in hand.
Idle == [pc |-> "idle", stage |-> "none", attempt |-> 0, inner |-> 0,
         recov |-> FALSE, wake |-> "none", text |-> {}, rpcAt |-> "none",
         final |-> FALSE, nb |-> 0]

\* a broadcast_to_stream call: stream_id, audio_data, the snapshot still to
\* be written (todo), the socket whose send_bytes is awaited (cur),
\* failed_listeners (failed); history: the sockets registered (reg0) and
\* registered and connected (live0) when the call was made, the pairs of
\* failedOnce at that moment (ban0), the write attempts made (att)
NoBcast == [pc |-> "idle", stream |-> "none", data |-> "none", todo |-> {},
            cur |-> "none", failed |-> << >>, reg0 |-> {}, live0 |-> {},
            ban0 |-> {}, att |-> << >>]

\* an on_transcript call: its position, its arguments and locals; history:
\* the cache keys it inserted (inserted), the broadcast_callback calls it
\* made (nb), the English text of the first successful translation of its
\* key made before the call (first; empty: none)
NoCall == [pc |-> "idle", transcript |-> << >>, key |-> << >>,
           translated |-> << >>, inserted |-> {}, nb |-> 0, first |-> << >>]

NoSummary == [stream |-> "none", final |-> FALSE, failedAt |-> "none",
              nb |-> 0, kept |-> {}]

\* a _start_keepalive_monitor task: t0 is current_time of the check in
\* progress, need the connections of its snapshot still to be pinged, cur
\* the socket whose send_text is awaited, dead its dead_connections, wake
\* the time its sleep ends
NoMonitor == [pc |-> "none", t0 |-> 0, need |-> {}, cur |-> "none",
              dead |-> {}, wake |-> 0]

\* a websocket_listener_endpoint call and the stream_id of its path
NoEndpoint == [pc |-> "none", stream |-> "none"]

\* history of a socket: the client answers pings (answers), a ping is not
\* answered yet (waiting), time of the first ping (first_ping; 0: none),
\* a send_text to it raised (lost), removed by the keepalive check
\* (removed), remove_listener calls made by its endpoint (removes)
NoHist == [answers |-> FALSE, waiting |-> FALSE, first_ping |-> 0,
           lost |-> FALSE, removed |-> FALSE, removes |-> 0]

\* a StreamingSpeechToText object as __init__ leaves it; polling: the
\* request generator is inside its while loop; fed, continuous: history of
\* the audio it was sent between clock steps
NoSession == [is_streaming |-> FALSE, task |-> "none", polling |-> FALSE,
              queue |-> << >>, born |-> 0, fed |-> FALSE,
              continuous |-> FALSE]

Callers == {"c1", "c2"}

Senders == {"p1", "p2"}

\* no send_audio coroutine of this sender is suspended
NoSend == [pc |-> "idle", chunk |-> 0]

\* no send_audio call made yet; full: the queue held maxsize chunks when
\* the call began; blocked: the call was suspended in put; raised: it
\* ended with StreamingError
NoSendYet == [sender |-> "none", chunk |-> 0, full |-> FALSE,
              blocked |-> FALSE, raised |-> FALSE]

\* no StreamManager coroutine of this caller is suspended
NoCoroutine == [pc |-> "idle", op |-> "none", old |-> 0]

\* no orchestrator call made yet
NoOp == [op |-> "none", st |-> "none", ret |-> FALSE, mode |-> "none",
         reason |-> "none"]

\* an AdaptiveStreamBuffer as __init__ leaves it; start_time None is
\* written started = FALSE
NewBuffer == [current_mode |-> "BUFFERED", chunks |-> << >>,
              started |-> FALSE, start_time |-> 0]

\* no add_chunk call made yet; before, after: current_mode when the call
\* began and when it returned; streaming, buffered: the two votes of
\* _decide_mode_from_analytics for the chunks of the analysis window as
\* they were after the append
NoAdd == [before |-> "none", after |-> "none", streaming |-> 0,
          buffered |-> 0]

\* no process_audio_chunk call in hand. size, buffer_mode: audio_chunk and
\* what add_chunk returned; audio, clear: the bytes handed to
\* process_chunk and whether adaptive_buffer.clear() follows it;
\* streaming: how the streaming attempt of the call went; errors:
\* handle_processing_error calls of the call; before: consecutive_failures
\* when the call began; dead: the call was routed to streaming while a
\* session that is not active was stored; created: the call created a
\* session
HyIdle == [pc |-> "idle", size |-> 0, buffer_mode |-> "none", audio |-> 0,
           clear |-> FALSE, streaming |-> "none", errors |-> 0,
           before |-> 0, dead |-> FALSE, created |-> FALSE]

\* no session stored for the stream
NoHySession == [exists |-> FALSE, state |-> "none", is_active |-> FALSE,
                queued |-> 0]

\* no call ended yet; buffered: _process_buffered ran; raised: the call
\* raised to its caller; after, mode: consecutive_failures and
\* current_mode of the stream when the call ended
NoChunkYet == [streaming |-> "none", buffered |-> FALSE, raised |-> FALSE,
               errors |-> 0, before |-> 0, after |-> 0, mode |-> "none",
               dead |-> FALSE, created |-> FALSE]

\* no RPC started and no chunk added for the message in hand
NoTally == [stt |-> 0, tr |-> 0, tts |-> 0, adds |-> 0]

NoLast == [s |-> "none", how |-> "none", final |-> FALSE, nb |-> 0,
           due |-> FALSE]

\* summary of a finished message; due: the breaker had been open for
\* reset_timeout when the message was received
Summary(s, r, how, nb) ==
    [s |-> s, how |-> how, final |-> r.final, nb |-> nb,
     due |-> (how = "open" /\ now >= cb.opened_at + ResetTimeout)]

Init ==
    /\ cb = [state |-> "closed", fail_counter |-> 0, opened_at |-> 0]
    /\ now = 0
    /\ sess = [s \in Sessions |-> Idle]
    /\ chunks = <<>>
    /\ nmsgs = 0
    /\ run = 0
    /\ last = NoLast
    /\ streams = << >>
    /\ meta = << >>
    /\ keepalive_running = FALSE
    /\ ktasks = 0
    /\ blocked = FALSE
    /\ closed = {}
    /\ bc = [b \in Bcasts |-> NoBcast]
    /\ failedOnce = {}
    /\ time = StartTime
    /\ mon = [m \in Monitors |-> NoMonitor]
    /\ lep = [x \in Sockets |-> NoEndpoint]
    /\ hist = [x \in Sockets |-> NoHist]
    /\ tcache = << >>
    /\ tdone = << >>
    /\ ot = [st \in Streams |-> NoCall]
    /\ ntr = 0
    /\ tlast = NoSummary
    /\ fnow = FoStartTime
    /\ stream_status = << >>
    /\ last_failure_time = << >>
    /\ fallback_history = << >>
    /\ flast = NoOp
    /\ streak = [st \in Streams |-> 0]
    /\ mnow = 0
    /\ mstreams = << >>
    /\ nobj = 0
    /\ obj = [o \in 1..MaxSessions |-> NoSession]
    /\ coro = [c \in Callers |-> NoCoroutine]
    /\ nchunks = 0
    /\ accepted = {}
    /\ delivered = {}
    /\ lost = {}
    /\ state = "idle"
    /\ is_active = FALSE
    /\ audio_queue = << >>
    /\ chunks_sent = 0
    /\ snd = [p \in Senders |-> NoSend]
    /\ nsent = 0
    /\ qlast = NoSendYet
    /\ tally = NoTally
    /\ abnow = 0
    /\ abuf = NewBuffer
    /\ ablast = NoAdd
    /\ results_taken = 0
    /\ in_callback = << >>
    /\ broadcast_log = << >>
    /\ hy = HyIdle
    /\ hsession = NoHySession
    /\ timings = [ok |-> 0, total |-> 0]
    /\ ncalls = 0
    /\ hlast = NoChunkYet

Range(q) == {q[i] : i \in DOMAIN q}

\* the retry-exhausted run ends with any other way a message completes
Taint == 0 - 1
Bump(rn) == IF rn = Taint THEN Taint ELSE rn + 1

\* settings.FALLBACK_AUDIO handed to broadcast_to_stream (speaker) or to
\* websocket.send_bytes (/ws); the message is then finished
Fallback(s, r, how) ==
    /\ sess' = [sess EXCEPT ![s] = Idle]
    /\ last' = Summary(s, r, how, r.nb + 1)

\* process_pipeline returned None: nothing is sent for this message
NoOutput(s, r) ==
    /\ sess' = [sess EXCEPT ![s] = Idle]
    /\ last' = Summary(s, r, "none", r.nb)

\* a service call puts its RPC on the executor and awaits it
StartRpc(s, r, stage, k) ==
    /\ sess' = [sess EXCEPT ![s] = [r EXCEPT !.pc = "rpc", !.stage = stage,
                                             !.inner = k, !.wake = "none",
                                             !.rpcAt = cb.state]]
    /\ last' = last

\* the endpoint's except clause for a pipeline that failed for good
ExhaustedHandlerOk(c, t) == CbCall(c, t, TRUE)

ExhaustedHandler(c, t) == RecordFailure(c, t)

\* an exception leaves the body of process_pipeline: tenacity sleeps and
\* runs the body again, or reraises into the endpoint's except clause
AttemptFailed(s, r) ==
    IF r.attempt < ApiRetryAttempts
    THEN /\ sess' = [sess EXCEPT ![s] = [r EXCEPT !.pc = "sleep",
                                         !.wake = "outer", !.stage = "none",
                                         !.inner = 0, !.recov = FALSE,
                                         !.text = {}, !.rpcAt = "none"]]
         /\ UNCHANGED <<cb, run, last>>
    ELSE /\ cb' = ExhaustedHandler(cb, now)
         /\ Fallback(s, r, "exhausted")
         /\ run' = Bump(run)

\* _process_chunk_with_recovery, except clause: the recovery manager handles
\* the error (None is returned) or the fallback handler clears the buffer
\* and the error leaves process_chunk
ChunkError(s, r, ch) ==
    \E handled \in BOOLEAN :
        IF handled
        THEN /\ NoOutput(s, r)
             /\ chunks' = ch
             /\ run' = Taint
             /\ UNCHANGED cb
        ELSE /\ chunks' = <<>>
             /\ AttemptFailed(s, r)

\* _stt_with_context line 225: real_speech_to_text once more after a
\* handled error; too short a blob raises before any RPC
RecognizeAgain(s, r, ch) ==
    \/ /\ StartRpc(s, r, "stt", 1)
       /\ chunks' = ch
       /\ UNCHANGED <<cb, run>>
    \/ ChunkError(s, r, ch)

\* _stt_with_context, except clause: real_speech_to_text raised; the
\* recovery manager handles the error (the call is repeated) or not
SttRaised(s, r, ch) ==
    IF r.recov
    THEN ChunkError(s, r, ch)
    ELSE \/ ChunkError(s, r, ch)
         \/ RecognizeAgain(s, [r EXCEPT !.recov = TRUE], ch)

\* real_speech_to_text: too short a blob raises before any RPC, otherwise
\* the recognize RPC is started
Recognize(s, r, ch) ==
    \/ /\ StartRpc(s, r, "stt", 1)
       /\ chunks' = ch
       /\ UNCHANGED <<cb, run>>
    \/ SttRaised(s, r, ch)

\* SmartAudioBuffer._evaluate_release_conditions: MAX_SIZE is forced, the
\* other reasons depend on timing and quality of the audio
MustRelease(ch) == Len(ch) >= MaxBufferChunks

\* one run of the body of process_pipeline up to its first suspension:
\* the chunk is appended to the shared buffer, which releases or not
AttemptBody(s, r) ==
    LET ch == Append(chunks, StreamOf(s)) IN
    \E release \in (IF MustRelease(ch) THEN {TRUE} ELSE BOOLEAN) :
        IF release
        THEN Recognize(s, [r EXCEPT !.text = Range(ch), !.recov = FALSE],
                       <<>>)
        ELSE /\ NoOutput(s, r)
             /\ chunks' = ch
             /\ run' = Taint
             /\ UNCHANGED cb

\* websocket.receive() delivers an audio message
Receive(s) ==
    /\ sess[s].pc = "idle"
    /\ nmsgs < MaxMsgs
    /\ nmsgs' = nmsgs + 1
    /\ now' = now
    /\ IF ShortCircuits(cb)
       THEN /\ Fallback(s, Idle, "open")
            /\ UNCHANGED <<cb, chunks, run>>
       ELSE AttemptBody(s, [Idle EXCEPT !.attempt = 1])

\* the RPC in flight returns or raises
RpcReturn(s) ==
    /\ sess[s].pc = "rpc"
    /\ UNCHANGED <<now, nmsgs>>
    /\ LET r == sess[s] IN
       \E ok \in BOOLEAN :
         IF ~ok
         THEN IF r.inner < ServiceAttempts
              THEN /\ sess' = [sess EXCEPT ![s] = [r EXCEPT !.pc = "sleep",
                                                   !.wake = "inner",
                                                   !.rpcAt = "none"]]
                   /\ UNCHANGED <<cb, chunks, run, last>>
              ELSE IF r.stage = "stt"
                   THEN SttRaised(s, r, chunks)
                   ELSE /\ AttemptFailed(s, r)
                        /\ UNCHANGED chunks
         ELSE CASE r.stage = "stt" ->
                     /\ StartRpc(s, [r EXCEPT !.final = TRUE], "tr", 1)
                     /\ UNCHANGED <<cb, chunks, run>>
                [] r.stage = "tr" ->
                     /\ StartRpc(s, r, "tts", 1)
                     /\ UNCHANGED <<cb, chunks, run>>
                [] OTHER ->
                     /\ sess' = [sess EXCEPT ![s] =
                                   [r EXCEPT !.pc = "bcast", !.stage = "none",
                                             !.inner = 0, !.recov = FALSE,
                                             !.rpcAt = "none",
                                             !.nb = r.nb + 1]]
                     /\ UNCHANGED <<cb, chunks, run, last>>

\* a back-off sleep of tenacity ends
Wake(s) ==
    /\ sess[s].pc = "sleep"
    /\ UNCHANGED <<now, nmsgs>>
    /\ LET r == sess[s] IN
       IF r.wake = "inner"
       THEN /\ StartRpc(s, r, r.stage, r.inner + 1)
            /\ UNCHANGED <<cb, chunks, run>>
       ELSE AttemptBody(s, [r EXCEPT !.attempt = r.attempt + 1])

\* the broadcast (or the send on the /ws socket) inside the timed block
\* returns: the message is finished
BcastReturn(s) ==
    /\ sess[s].pc = "bcast"
    /\ sess' = [sess EXCEPT ![s] = Idle]
    /\ last' = Summary(s, sess[s], "success", sess[s].nb)
    /\ run' = Taint
    /\ UNCHANGED <<cb, now, chunks, nmsgs>>

\* asyncio.timeout(PIPELINE_TIMEOUT_S) expires while the session is
\* suspended inside the timed block
TimeoutHandler(s, c, t) ==
    IF s \in WsSessions THEN WsRecordTimeout(c, t) ELSE RecordFailure(c, t)

Timeout(s) ==
    /\ sess[s].pc \in {"rpc", "sleep", "bcast"}
    /\ cb' = TimeoutHandler(s, cb, now)
    /\ Fallback(s, sess[s], "timeout")
    /\ run' = Taint
    /\ UNCHANGED <<now, chunks, nmsgs>>

\* the clock; it is read only against opened_at of an open breaker
Tick ==
    /\ cb.state = "open"
    /\ now < MaxTime
    /\ now' = now + ClockStep
    /\ UNCHANGED <<cb, sess, chunks, nmsgs, run, last>>
    /\ UNCHANGED notPipeline

Step(s) ==
    /\ \/ Receive(s)
       \/ RpcReturn(s)
       \/ Wake(s)
       \/ BcastReturn(s)
       \/ Timeout(s)
    /\ UNCHANGED notPipeline

\* two speakers on two streams
Next ==
    \/ \E s \in SpeakSessions : Step(s)
    \/ Tick

Spec == Init /\ [][Next]_vars

\* a /ws session next to one speaker
NextWs ==
    \/ \E s \in WsSessions \cup {"spA"} : Step(s)
    \/ Tick

SpecWs == Init /\ [][NextWs]_vars

\* one speaker alone, with the tally of what its message in hand caused
RtSession == "spA"

\* the tally after a step of session s: a new message starts it afresh;
\* a run of the body of process_pipeline (on receipt, or when tenacity's
\* sleep between attempts ends) hands the chunk to
\* buffered_speech_to_text, which adds it to the buffer; a step that ends
\* inside an RPC has started that RPC
Tallied(s) ==
    LET r == sess[s]
        base == IF r.pc = "idle" THEN NoTally ELSE tally
        body == /\ \/ r.pc = "idle" /\ ~ShortCircuits(cb)
                   \/ r.pc = "sleep" /\ r.wake = "outer"
                /\ ~ (sess'[s].pc = "idle" /\ last'.how = "timeout")
        added == [base EXCEPT !.adds = IF body THEN @ + 1 ELSE @]
    IN  IF sess'[s].pc = "rpc"
        THEN [added EXCEPT ![sess'[s].stage] = @ + 1]
        ELSE added

RtStep(s) ==
    /\ \/ Receive(s)
       \/ RpcReturn(s)
       \/ Wake(s)
       \/ BcastReturn(s)
       \/ Timeout(s)
    /\ tally' = Tallied(s)
    /\ UNCHANGED notTally

NextRt ==
    \/ RtStep(RtSession)
    \/ Tick

SpecRt == Init /\ [][NextRt]_vars

\* ---------------------------------------------------- ConnectionManager
Drop(f, k) == [j \in DOMAIN f \ {k} |-> f[j]]

\* get_listeners
GetListeners(S, st) == IF st \in DOMAIN S THEN S[st] ELSE {}

Registered(S, st, x) == x \in GetListeners(S, st)

\* self._lock is a threading.Lock: remove_listener holds it when it calls
\* _has_active_connections, which acquires it again
LockHeldBlocks == TRUE

Manager == [streams |-> streams, meta |-> meta,
            keepalive_running |-> keepalive_running, blocked |-> blocked]

\* remove_listener(st, x) on manager state m
RemoveOne(m, st, x) ==
    IF m.blocked \/ ~Registered(m.streams, st, x)
    THEN m
    ELSE LET S == IF m.streams[st] \ {x} = {}
                  THEN Drop(m.streams, st)
                  ELSE [m.streams EXCEPT ![st] = @ \ {x}]
             M == IF x \in DOMAIN m.meta THEN Drop(m.meta, x) ELSE m.meta
         IN IF LockHeldBlocks
            THEN [streams |-> S, meta |-> M,
                  keepalive_running |-> m.keepalive_running,
                  blocked |-> TRUE]
            ELSE [streams |-> S, meta |-> M,
                  keepalive_running |-> IF DOMAIN M = {} THEN FALSE
                                        ELSE m.keepalive_running,
                  blocked |-> FALSE]

RECURSIVE RemoveSeq(_, _, _)
RemoveSeq(m, st, q) ==
    IF q = << >> THEN m
    ELSE RemoveSeq(RemoveOne(m, st, Head(q)), st, Tail(q))

RECURSIVE RemoveSet(_, _, _)
RemoveSet(m, st, F) ==
    IF F = {} THEN m
    ELSE LET x == CHOOSE y \in F : TRUE
         IN RemoveSet(RemoveOne(m, st, x), st, F \ {x})

SetManager(m) ==
    /\ streams' = m.streams
    /\ meta' = m.meta
    /\ keepalive_running' = m.keepalive_running
    /\ blocked' = m.blocked

\* add_listener(st, x): the manager state, and whether a
\* _start_keepalive_monitor task is created
IsNew(m, st, x) == ~Registered(m.streams, st, x)

AddOne(m, st, x, t) ==
    IF ~IsNew(m, st, x) THEN m
    ELSE [m EXCEPT
            !.streams = [j \in DOMAIN m.streams \cup {st} |->
                           IF j = st THEN GetListeners(m.streams, st) \cup {x}
                           ELSE m.streams[j]],
            !.meta = [j \in DOMAIN m.meta \cup {x} |->
                        IF j = x
                        THEN [stream_id |-> st, last_ping |-> 0,
                              last_pong |-> t, connected_at |-> t]
                        ELSE m.meta[j]]]

AddListenerCall(st, x) ==
    /\ ~blocked
    /\ keepalive_running \/ ktasks < MaxTasks
    /\ SetManager(AddOne(Manager, st, x, time))
    /\ ktasks' = IF IsNew(Manager, st, x) /\ ~keepalive_running
                 THEN ktasks + 1 ELSE ktasks
    /\ failedOnce' = failedOnce \ {<<st, x>>}
    /\ UNCHANGED <<closed, bc>>

AddListener(st, x) ==
    /\ AddListenerCall(st, x)
    /\ UNCHANGED notManager

\* remove_listener(st, x) called by a listener endpoint
RemoveListener(st, x) ==
    /\ ~blocked
    /\ SetManager(RemoveOne(Manager, st, x))
    /\ UNCHANGED <<ktasks, closed, bc, failedOnce>>
    /\ UNCHANGED notManager

\* a created _start_keepalive_monitor task gets to run
MonitorStart ==
    /\ ~blocked
    /\ ktasks > 0
    /\ ktasks' = ktasks - 1
    /\ keepalive_running' = TRUE
    /\ UNCHANGED <<streams, meta, blocked, closed, bc, failedOnce>>
    /\ UNCHANGED notManager

\* the transport of a socket goes away
SocketClose(x) ==
    /\ ~blocked
    /\ x \notin closed
    /\ closed' = closed \cup {x}
    /\ UNCHANGED <<streams, meta, keepalive_running, ktasks, blocked, bc,
                   failedOnce>>
    /\ UNCHANGED notManager

\* broadcast_to_stream(st, d) up to its first await: cleanup of dead
\* connections, snapshot of the listeners, first send_bytes
BroadcastStart(b, st, d) ==
    /\ ~blocked
    /\ bc[b].pc \in {"idle", "done"}
    /\ LET reg == GetListeners(streams, st)
           dead == reg \cap closed
           call == [NoBcast EXCEPT !.stream = st, !.data = d, !.reg0 = reg,
                                   !.live0 = reg \ closed,
                                   !.ban0 = {y \in Sockets :
                                               <<st, y>> \in failedOnce}]
       IN \E first \in (IF dead = {} THEN {"none"} ELSE dead) :
            LET m == IF dead = {} THEN Manager
                     ELSE RemoveSet(RemoveOne(Manager, st, first), st,
                                    dead \ {first})
                listeners == GetListeners(m.streams, st)
            IN /\ SetManager(m)
               /\ IF m.blocked
                  THEN bc' = [bc EXCEPT ![b] = [call EXCEPT !.pc = "stuck"]]
                  ELSE IF listeners = {}
                  THEN bc' = [bc EXCEPT ![b] = [call EXCEPT !.pc = "done"]]
                  ELSE \E x \in listeners :
                         bc' = [bc EXCEPT ![b] =
                                  [call EXCEPT !.pc = "sending", !.cur = x,
                                               !.todo = listeners \ {x},
                                               !.att = <<x>>]]
    /\ UNCHANGED <<ktasks, closed, failedOnce>>
    /\ UNCHANGED notManager

\* send_bytes returns or raises; the loop goes on with the next listener
\* or ends, and then the failed listeners are removed
SendDone(b) ==
    /\ ~blocked
    /\ bc[b].pc = "sending"
    /\ LET r == bc[b]
           x == r.cur
       IN \E ok \in (IF x \in closed THEN {FALSE} ELSE BOOLEAN) :
            LET fl == IF ok THEN r.failed ELSE Append(r.failed, x)
            IN /\ failedOnce' = IF ok THEN failedOnce
                                ELSE failedOnce \cup {<<r.stream, x>>}
               /\ IF r.todo # {}
                  THEN /\ \E y \in r.todo :
                            bc' = [bc EXCEPT ![b] =
                                     [r EXCEPT !.cur = y, !.todo = @ \ {y},
                                               !.failed = fl,
                                               !.att = Append(@, y)]]
                       /\ UNCHANGED <<streams, meta, keepalive_running,
                                      blocked>>
                  ELSE LET m == RemoveSeq(Manager, r.stream, fl)
                       IN /\ SetManager(m)
                          /\ bc' = [bc EXCEPT ![b] =
                                      [r EXCEPT !.cur = "none",
                                                !.failed = fl,
                                                !.pc = IF m.blocked
                                                       THEN "stuck"
                                                       ELSE "done"]]
    /\ UNCHANGED <<ktasks, closed>>
    /\ UNCHANGED notManager

NextCM ==
    \/ \E st \in Streams, x \in Sockets : AddListener(st, x)
    \/ \E st \in Streams, x \in Sockets : RemoveListener(st, x)
    \/ \E x \in Sockets : SocketClose(x)
    \/ MonitorStart
    \/ \E b \in Bcasts, st \in Streams, d \in Data : BroadcastStart(b, st, d)
    \/ \E b \in Bcasts : SendDone(b)

SpecCM == Init /\ [][NextCM]_vars


\* ------------------------------------------------------------- keepalive
\* _perform_keepalive_check, per connection of the snapshot
TimedOut(md, t0) == md.last_ping > 0 /\ t0 - md.last_pong > PongTimeout

PingDue(md, t0) == t0 - md.last_ping >= PingInterval

\* _start_keepalive_monitor, first statement
AlreadyRunningNever(running) == FALSE

AlreadyRunning(running) == running

\* the removals at the end of a check: remove_listener(stream_id, x) for
\* the dead connections, first being the first of them
RECURSIVE RemoveEach(_, _, _)
RemoveEach(m, M0, D) ==
    IF D = {} THEN m
    ELSE LET x == CHOOSE y \in D : TRUE
         IN RemoveEach(RemoveOne(m, M0[x].stream_id, x), M0, D \ {x})

RemoveDead(m, first, D) ==
    RemoveEach(RemoveOne(m, m.meta[first].stream_id, first), m.meta,
               (D \cap DOMAIN m.meta) \ {first})

\* the check goes on, from manager state m0 and history h, with the
\* connections still to be pinged: up to the next send_text, or through the removals to the
\* sleep of the monitor loop
CheckOn(m, r, m0, h) ==
    LET gone == r.need \cap closed
        live == r.need \ closed
        dead == r.dead \cup gone
        D == dead \cap DOMAIN m0.meta
    IN IF live # {}
       THEN /\ \E x \in live :
                 mon' = [mon EXCEPT ![m] =
                           [r EXCEPT !.pc = "ping", !.cur = x,
                                     !.need = live \ {x}, !.dead = dead]]
            /\ SetManager(m0)
            /\ hist' = h
       ELSE IF D = {}
       THEN /\ mon' = [mon EXCEPT ![m] =
                         [r EXCEPT !.pc = "sleep", !.cur = "none",
                                   !.need = {}, !.dead = {},
                                   !.wake = time + PingInterval]]
            /\ SetManager(m0)
            /\ hist' = h
       ELSE \E first \in D :
              LET m1 == RemoveDead(m0, first, D) IN
              /\ SetManager(m1)
              /\ hist' = [x \in Sockets |->
                            IF x \in D /\ x \notin DOMAIN m1.meta
                            THEN [h[x] EXCEPT !.removed = TRUE]
                            ELSE h[x]]
              /\ mon' = [mon EXCEPT ![m] =
                           [r EXCEPT !.pc = IF m1.blocked THEN "stuck"
                                            ELSE "sleep",
                                     !.cur = "none", !.need = {},
                                     !.dead = {},
                                     !.wake = time + PingInterval]]

\* _perform_keepalive_check from its start
CheckBegin(m, m0) ==
    LET snap == DOMAIN m0.meta
        dead == {x \in snap : TimedOut(m0.meta[x], time)}
        need == {x \in snap \ dead : PingDue(m0.meta[x], time)}
    IN CheckOn(m, [mon[m] EXCEPT !.t0 = time, !.need = need, !.dead = dead],
               m0, hist)

\* a created _start_keepalive_monitor task gets to run: it returns at once
\* or sets the flag and enters its loop
MonitorRun(m) ==
    /\ ~blocked
    /\ ktasks > 0
    /\ mon[m].pc = "none"
    /\ ktasks' = ktasks - 1
    /\ IF AlreadyRunning(keepalive_running)
       THEN /\ mon' = [mon EXCEPT ![m] = [@ EXCEPT !.pc = "done"]]
            /\ UNCHANGED <<streams, meta, keepalive_running, blocked, hist>>
       ELSE CheckBegin(m, [Manager EXCEPT !.keepalive_running = TRUE])
    /\ UNCHANGED <<closed, bc, failedOnce, time, lep>>
    /\ UNCHANGED notKeepalive

\* asyncio.sleep(PING_INTERVAL) of the loop ends
MonitorWake(m) ==
    /\ ~blocked
    /\ mon[m].pc = "sleep"
    /\ time >= mon[m].wake
    /\ IF keepalive_running
       THEN CheckBegin(m, Manager)
       ELSE /\ mon' = [mon EXCEPT ![m] = [@ EXCEPT !.pc = "done"]]
            /\ UNCHANGED <<streams, meta, keepalive_running, blocked, hist>>
    /\ UNCHANGED <<ktasks, closed, bc, failedOnce, time, lep>>
    /\ UNCHANGED notKeepalive

\* send_text of _send_ping returns (last_ping is set) or raises (the
\* connection is dead)
PingReturn(m) ==
    /\ ~blocked
    /\ mon[m].pc = "ping"
    /\ LET r == mon[m]
           x == r.cur
       IN \E ok \in (IF x \in closed THEN {FALSE} ELSE BOOLEAN) :
            IF ok
            THEN LET m0 == IF x \in DOMAIN meta
                           THEN [Manager EXCEPT !.meta[x].last_ping = time]
                           ELSE Manager
                     h == [hist EXCEPT ![x].waiting = TRUE,
                                       ![x].first_ping =
                                          IF @ = 0 THEN time ELSE @]
                 IN CheckOn(m, r, m0, h)
            ELSE CheckOn(m, [r EXCEPT !.dead = @ \cup {x}], Manager,
                         [hist EXCEPT ![x].lost = TRUE])
    /\ UNCHANGED <<ktasks, closed, bc, failedOnce, time, lep>>
    /\ UNCHANGED notKeepalive

\* ------------------------------------------------------ listener endpoint
\* websocket_listener_endpoint: accept, add_listener, then the receive loop
Connect(x, st, answers) ==
    /\ lep[x].pc = "none"
    /\ x \notin closed
    /\ AddListenerCall(st, x)
    /\ lep' = [lep EXCEPT ![x] = [pc |-> "open", stream |-> st]]
    /\ hist' = [hist EXCEPT ![x].answers = answers]
    /\ UNCHANGED <<time, mon>>
    /\ UNCHANGED notKeepalive

\* receive() returns the client's pong frame: the loop goes on, no
\* ConnectionManager method is called
PongReceived(x) ==
    /\ ~blocked
    /\ lep[x].pc = "open"
    /\ hist[x].answers /\ hist[x].waiting
    /\ hist' = [hist EXCEPT ![x].waiting = FALSE]
    /\ UNCHANGED <<time, mon, lep>>
    /\ UNCHANGED <<cvars, notKeepalive>>

\* receive() returns the websocket.disconnect message: break
DisconnectMessage(x) ==
    /\ ~blocked
    /\ lep[x].pc = "open"
    /\ lep' = [lep EXCEPT ![x].pc = "returned"]
    /\ closed' = closed \cup {x}
    /\ UNCHANGED <<streams, meta, keepalive_running, ktasks, blocked, bc,
                   failedOnce>>
    /\ UNCHANGED <<time, mon, hist>>
    /\ UNCHANGED notKeepalive

\* receive() raises WebSocketDisconnect or another exception: the except
\* clauses call remove_listener
DisconnectRaised(x) ==
    /\ ~blocked
    /\ lep[x].pc = "open"
    /\ LET m1 == RemoveOne(Manager, lep[x].stream, x) IN
       /\ SetManager(m1)
       /\ lep' = [lep EXCEPT ![x].pc = IF m1.blocked THEN "stuck"
                                       ELSE "returned"]
    /\ hist' = [hist EXCEPT ![x].removes = @ + 1]
    /\ closed' = closed \cup {x}
    /\ UNCHANGED <<ktasks, bc, failedOnce>>
    /\ UNCHANGED <<time, mon>>
    /\ UNCHANGED notKeepalive

\* the clock of the manager.  While the event loop runs, a created task,
\* a due timer, a send_text and a client that answers pings do not let a
\* whole step of the clock pass
Prompt ==
    /\ ktasks = 0
    /\ \A m \in Monitors :
          /\ mon[m].pc # "ping"
          /\ mon[m].pc = "sleep" => time < mon[m].wake
    /\ \A x \in Sockets :
          (lep[x].pc = "open" /\ hist[x].answers) => ~hist[x].waiting

KaTick ==
    /\ time < MaxKaTime
    /\ blocked \/ Prompt
    /\ time' = time + KaStep
    /\ UNCHANGED <<mon, lep, hist>>
    /\ UNCHANGED <<cvars, notKeepalive>>

NextKA ==
    \/ \E x \in Sockets, st \in Streams, a \in BOOLEAN : Connect(x, st, a)
    \/ \E x \in Sockets : PongReceived(x)
    \/ \E x \in Sockets : DisconnectMessage(x)
    \/ \E x \in Sockets : DisconnectRaised(x)
    \/ \E m \in Monitors : MonitorRun(m)
    \/ \E m \in Monitors : MonitorWake(m)
    \/ \E m \in Monitors : PingReturn(m)
    \/ KaTick

SpecKA == Init /\ [][NextKA]_vars

\* ------------------------------------------- streaming path: on_transcript
Chars == {"a", "A", " "}
Texts == UNION {[1..n -> Chars] : n \in 0..MaxLen}

\* str.strip()
RECURSIVE LStrip(_)
LStrip(t) == IF t # << >> /\ Head(t) = " " THEN LStrip(Tail(t)) ELSE t

RECURSIVE RStrip(_)
RStrip(t) ==
    IF t # << >> /\ t[Len(t)] = " " THEN RStrip(SubSeq(t, 1, Len(t) - 1))
    ELSE t

Strip(t) == RStrip(LStrip(t))

\* str.lower()
Lower(t) == [i \in DOMAIN t |-> IF t[i] = "A" THEN "a" ELSE t[i]]

\* cache_key = transcript.strip().lower()
CacheKey(t) == Lower(Strip(t))

\* real_translation(text): the English text the translate RPC gives for text
English(t) == <<"en">> \o Strip(t)

\* on_transcript returns (normally or through its except clause)
Finish(st, r, final, failedAt, cache) ==
    /\ ot' = [ot EXCEPT ![st] = NoCall]
    /\ tlast' = [stream |-> st, final |-> final,
                 failedAt |-> failedAt, nb |-> r.nb,
                 kept |-> r.inserted \cap DOMAIN cache]

\* _process_responses awaits on_transcript(transcript, is_final, confidence)
\* up to its first suspension: the translate RPC, or on a cache hit the
\* synthesize RPC
OnTranscript(st, t, is_final) ==
    /\ ot[st].pc = "idle"
    /\ ntr < MaxTranscripts
    /\ ntr' = ntr + 1
    /\ UNCHANGED <<tcache, tdone>>
    /\ LET r == [NoCall EXCEPT !.transcript = t, !.key = CacheKey(t),
                               !.first = IF CacheKey(t) \in DOMAIN tdone
                                         THEN tdone[CacheKey(t)]
                                         ELSE << >>] IN
       IF is_final /\ Strip(t) # << >>
       THEN /\ tlast' = tlast
            /\ IF r.key \in DOMAIN tcache
               THEN ot' = [ot EXCEPT ![st] =
                             [r EXCEPT !.pc = "tts",
                                       !.translated = tcache[r.key]]]
               ELSE ot' = [ot EXCEPT ![st] = [r EXCEPT !.pc = "translate"]]
       ELSE Finish(st, r, is_final, "none", tcache)
    /\ UNCHANGED notTranscript

\* real_translation returns the text, which is stored in the cache, or
\* raises after its retries
TranslateReturn(st) ==
    /\ ot[st].pc = "translate"
    /\ ntr' = ntr
    /\ LET r == ot[st] IN
       \E ok \in BOOLEAN :
         IF ok
         THEN /\ tcache' = [k \in DOMAIN tcache \cup {r.key} |->
                              IF k = r.key THEN English(r.transcript)
                              ELSE tcache[k]]
              /\ ot' = [ot EXCEPT ![st] =
                          [r EXCEPT !.pc = "tts",
                                    !.translated = English(r.transcript),
                                    !.inserted = @ \cup {r.key}]]
              /\ tdone' = IF r.key \in DOMAIN tdone THEN tdone
                          ELSE [k \in DOMAIN tdone \cup {r.key} |->
                                  IF k = r.key THEN English(r.transcript)
                                  ELSE tdone[k]]
              /\ tlast' = tlast
         ELSE /\ UNCHANGED <<tcache, tdone>>
              /\ Finish(st, r, TRUE, "translate", tcache)
    /\ UNCHANGED notTranscript

\* real_text_to_speech returns the audio, which is handed to
\* broadcast_callback, or raises after its retries
SynthesizeReturn(st) ==
    /\ ot[st].pc = "tts"
    /\ UNCHANGED <<ntr, tcache, tdone>>
    /\ LET r == ot[st] IN
       \E ok \in BOOLEAN :
         IF ok
         THEN /\ ot' = [ot EXCEPT ![st] = [r EXCEPT !.pc = "bcast",
                                                    !.nb = r.nb + 1]]
              /\ tlast' = tlast
         ELSE Finish(st, r, TRUE, "tts", tcache)
    /\ UNCHANGED notTranscript

\* broadcast_callback returns or raises
CallbackReturn(st) ==
    /\ ot[st].pc = "bcast"
    /\ UNCHANGED <<ntr, tcache, tdone>>
    /\ \E ok \in BOOLEAN :
         Finish(st, ot[st], TRUE, IF ok THEN "none" ELSE "bcast", tcache)
    /\ UNCHANGED notTranscript

\* the characters of a stream_id
IdText(st) == IF st = "A" THEN <<"a">> ELSE <<"A", "a">>

\* str.startswith
StartsWith(k, prefix) ==
    Len(prefix) <= Len(k) /\ SubSeq(k, 1, Len(prefix)) = prefix

\* close_stream(st): the cache entries whose key starts with the stream_id
\* are deleted
CloseStream(st) ==
    /\ \E k \in DOMAIN tcache : StartsWith(k, IdText(st))
    /\ tcache' = [k \in {j \in DOMAIN tcache : ~StartsWith(j, IdText(st))}
                    |-> tcache[k]]
    /\ UNCHANGED <<ot, ntr, tlast, tdone>>
    /\ UNCHANGED notTranscript

\* _process_responses: the is_final values of the results it hands to the
\* transcript callback; every result with alternatives is handed on, interim
\* or final
Forwarded == BOOLEAN

NextTr ==
    \/ \E st \in Streams : CloseStream(st)
    \/ \E st \in Streams, t \in Texts, f \in Forwarded :
          OnTranscript(st, t, f)
    \/ \E st \in Streams : TranslateReturn(st)
    \/ \E st \in Streams : SynthesizeReturn(st)
    \/ \E st \in Streams : CallbackReturn(st)

SpecTr == Init /\ [][NextTr]_vars

\* ------------------------------------------------- FallbackOrchestrator
\* backend/fallback_orchestrator.py. A StreamStatus keeps the fields the
\* mode decisions read: failure_count, last_success_time and
\* total_processing_time are only reported. None is written 0 for
\* last_failure_time, as `status.last_failure_time or 0` reads it. Events
\* keep stream_id, from_mode and to_mode.
global_mode == "STREAMING"

\* the streams the orchestrator is called for. The statuses of different
\* streams meet only in the counts of _should_force_fallback and
\* _global_conditions_favor_recovery, which take more than three streams
\* to change a decision.
FoStreams == {"A"}

Put(f, k, v) == [x \in DOMAIN f \cup {k} |-> IF x = k THEN v ELSE f[x]]

Status(mode) == [current_mode |-> mode, consecutive_failures |-> 0,
                 last_failure_time |-> 0, recovery_attempts |-> 0]

\* _get_stream_status: the status of st, created in global_mode if missing
GetStreamStatus(S, st) ==
    IF st \in DOMAIN S THEN S ELSE Put(S, st, Status(global_mode))

\* get_mode_for_stream, which callers of handle_processing_error pass as
\* current_mode when they do not pass STREAMING
GetModeForStream(S, st) ==
    IF st \in DOMAIN S THEN S[st].current_mode ELSE global_mode

\* the words _classify_error looks for in the lower-cased message, one per
\* branch of its elif chain
Keywords == {"quota", "timeout", "network", "memory"}

\* the messages of the errors handed to handle_processing_error, each
\* given by the keywords it holds
Errors == {{}, {"quota"}, {"timeout"}, {"network"}, {"memory"},
           {"timeout", "memory"}}

ClassifyError(e) ==
    IF "quota" \in e THEN "API_QUOTA"
    ELSE IF "timeout" \in e THEN "TIMEOUT"
    ELSE IF "network" \in e THEN "CONNECTION_QUALITY"
    ELSE IF "memory" \in e THEN "RESOURCE_LIMIT"
    ELSE "STREAMING_ERROR"

\* entries of last_failure_time younger than `window` seconds
RecentFailures(L, t, window) ==
    Cardinality({s \in DOMAIN L : t - L[s] < window})

ShouldForceFallback(S, L, st, t) ==
    \/ S[st].consecutive_failures >= FailureThreshold
    \/ RecentFailures(L, t, 300) > 10

GlobalConditionsFavorRecovery(S, L, t) ==
    /\ ~ (RecentFailures(L, t, 180) > 5)
    /\ ~ (Cardinality({s \in DOMAIN S :
                          /\ S[s].current_mode = "STREAMING"
                          /\ S[s].recovery_attempts > 0}) > 3)

\* ConnectionMetrics and audio characteristics handed to
\* decide_processing_mode; given = FALSE is None. success_rate is in
\* thousandths.
MetricsIn ==
    { [given |-> FALSE, average_latency_ms |-> 0, success_rate |-> 1000],
      [given |-> TRUE, average_latency_ms |-> 100, success_rate |-> 1000],
      [given |-> TRUE, average_latency_ms |-> 800, success_rate |-> 300] }

AudioIn ==
    { [given |-> FALSE, frequency |-> 0, size |-> 0],
      [given |-> TRUE, frequency |-> 10, size |-> 8000],
      [given |-> TRUE, frequency |-> 5, size |-> 3000],
      [given |-> TRUE, frequency |-> 2, size |-> 1000] }

\* _calculate_connection_quality_score, in ten-thousandths
QualityScore(m) ==
    LET lat == IF m.average_latency_ms > 1000
               THEN 0 ELSE 1000 - m.average_latency_ms
    IN  lat * 4 + m.success_rate * 6

\* quality_score < quality_threshold, 0.6 as __init__ defaults it
PoorQuality(m) == QualityScore(m) < 6000

AudioFavorsStreaming(a) == a.frequency > 8 \/ a.size > 5000
AudioFavorsBuffering(a) == a.frequency < 3 /\ a.size < 2000

\* the failure tracking of handle_processing_error and record_failure
Failed(S, st, t) ==
    [S EXCEPT ![st].consecutive_failures = @ + 1,
              ![st].last_failure_time = t]

\* record_success without the reset of the counter
SucceededKeeps(S, st) == S
\* record_success: status.consecutive_failures = 0
Succeeded(S, st) ==
    [S EXCEPT ![st].consecutive_failures = 0]

\* fallback_history.append on a deque(maxlen=1000)
AppendEvent(H, e) ==
    IF Len(H) = HistoryMaxLen THEN Tail(H) \o <<e>> ELSE Append(H, e)

Event(st, from, to) ==
    [stream_id |-> st, from_mode |-> from, to_mode |-> to]

\* _execute_fallback: sets the mode and appends the event built from the
\* from_mode the caller passed
ExecuteFallback(S, st, from, to) ==
    /\ Len(fallback_history) < MaxEvents
    /\ stream_status' = [S EXCEPT ![st].current_mode = to]
    /\ fallback_history' = AppendEvent(fallback_history, Event(st, from, to))

Called(op, st, ret, mode, reason) ==
    flast' = [op |-> op, st |-> st, ret |-> ret, mode |-> mode,
              reason |-> reason]

DecideProcessingMode(st, metrics, audio) ==
    LET S == GetStreamStatus(stream_status, st)
        decided ==
            IF ShouldForceFallback(S, last_failure_time, st, fnow)
            THEN "BUFFERED"
            ELSE IF metrics.given /\ PoorQuality(metrics) THEN "BUFFERED"
            ELSE IF audio.given /\ AudioFavorsStreaming(audio)
            THEN "STREAMING"
            ELSE IF audio.given /\ AudioFavorsBuffering(audio)
            THEN "BUFFERED"
            ELSE IF S[st].current_mode # "HYBRID" THEN S[st].current_mode
            ELSE global_mode
    IN  /\ stream_status' = S
        /\ Called("decide_processing_mode", st, FALSE, decided, "none")
        /\ UNCHANGED <<fnow, last_failure_time, fallback_history, streak,
                       notOrchestrator>>

\* the comparison of the counter with failure_threshold, one failure late
ThresholdReachedLate(n) == n > FailureThreshold
ThresholdReached(n) == n >= FailureThreshold

HandleProcessingError(st, e, current_mode) ==
    LET S0 == GetStreamStatus(stream_status, st)
        reason == ClassifyError(e)
        S == Failed(S0, st, fnow)
        should_fallback ==
            \/ ThresholdReached(S[st].consecutive_failures)
            \/ reason \in {"API_QUOTA", "RESOURCE_LIMIT"}
            \/ current_mode = "STREAMING"
    IN  /\ current_mode \in {"STREAMING",
                             GetModeForStream(stream_status, st)}
        /\ S0[st].consecutive_failures < MaxConsecutive
        /\ last_failure_time' = Put(last_failure_time, st, fnow)
        /\ IF should_fallback
           THEN ExecuteFallback(S, st, current_mode, "BUFFERED")
           ELSE /\ stream_status' = S
                /\ UNCHANGED fallback_history
        /\ streak' = [streak EXCEPT ![st] =
                         IF current_mode = "STREAMING" THEN @ + 1 ELSE 0]
        /\ Called("handle_processing_error", st, should_fallback,
                  current_mode, reason)
        /\ UNCHANGED <<fnow, notOrchestrator>>

RecordSuccess(st) ==
    /\ stream_status' = Succeeded(GetStreamStatus(stream_status, st), st)
    /\ streak' = [streak EXCEPT ![st] = 0]
    /\ Called("record_success", st, FALSE, "none", "none")
    /\ UNCHANGED <<fnow, last_failure_time, fallback_history,
                   notOrchestrator>>

Reasons == {"STREAMING_ERROR", "CONNECTION_QUALITY", "API_QUOTA", "TIMEOUT",
            "RESOURCE_LIMIT", "USER_PREFERENCE"}

\* FallbackOrchestrator.record_failure
FoRecordFailure(st, reason) ==
    LET S0 == GetStreamStatus(stream_status, st)
        S == Failed(S0, st, fnow)
    IN  /\ S0[st].consecutive_failures < MaxConsecutive
        /\ last_failure_time' = Put(last_failure_time, st, fnow)
        /\ IF S[st].consecutive_failures >= FailureThreshold
           THEN ExecuteFallback(S, st, S[st].current_mode, "BUFFERED")
           ELSE /\ stream_status' = S
                /\ UNCHANGED fallback_history
        /\ streak' = [streak EXCEPT ![st] = 0]
        /\ Called("record_failure", st, FALSE, "none", "none")
        /\ UNCHANGED <<fnow, notOrchestrator>>

Max2(a, b) == IF a > b THEN a ELSE b

\* should_attempt_recovery on the status map S that holds st
ShouldAttemptRecovery(S, L, st, t) ==
    LET last_failure ==
            Max2(S[st].last_failure_time,
                 IF st \in DOMAIN L THEN L[st] ELSE 0)
    IN  /\ S[st].current_mode = "BUFFERED"
        /\ ~ (S[st].recovery_attempts >= MaxRecoveryAttempts)
        /\ ~ (last_failure > 0 /\ t - last_failure < RecoveryInterval)
        /\ GlobalConditionsFavorRecovery(S, L, t)

ShouldAttemptRecoveryCall(st) ==
    LET S == GetStreamStatus(stream_status, st)
    IN  /\ stream_status' = S
        /\ Called("should_attempt_recovery", st,
                  ShouldAttemptRecovery(S, last_failure_time, st, fnow),
                  "none", "none")
        /\ UNCHANGED <<fnow, last_failure_time, fallback_history, streak,
                       notOrchestrator>>

AttemptRecovery(st) ==
    LET S == GetStreamStatus(stream_status, st)
        ok == ShouldAttemptRecovery(S, last_failure_time, st, fnow)
    IN  /\ IF ok
           THEN ExecuteFallback(
                    [S EXCEPT ![st].recovery_attempts = @ + 1],
                    st, "BUFFERED", "STREAMING")
           ELSE /\ stream_status' = S
                /\ UNCHANGED fallback_history
        /\ streak' = [streak EXCEPT ![st] = IF ok THEN 0 ELSE @]
        /\ Called("attempt_recovery", st, ok, "none", "none")
        /\ UNCHANGED <<fnow, last_failure_time, notOrchestrator>>

SetModeForStream(st, mode) ==
    LET S == GetStreamStatus(stream_status, st)
    IN  /\ stream_status' = [S EXCEPT ![st].current_mode = mode]
        /\ streak' = [streak EXCEPT ![st] = 0]
        /\ Called("set_mode_for_stream", st, FALSE, "none", "none")
        /\ UNCHANGED <<fnow, last_failure_time, fallback_history,
                       notOrchestrator>>

ResetStream(st) ==
    /\ stream_status' = Drop(stream_status, st)
    /\ last_failure_time' = Drop(last_failure_time, st)
    /\ streak' = [streak EXCEPT ![st] = 0]
    /\ Called("reset_stream", st, FALSE, "none", "none")
    /\ UNCHANGED <<fnow, fallback_history, notOrchestrator>>

FoTick ==
    /\ fnow + FoStep <= MaxFoTime
    /\ fnow' = fnow + FoStep
    /\ Called("tick", "none", FALSE, "none", "none")
    /\ UNCHANGED <<stream_status, last_failure_time, fallback_history,
                   streak, notOrchestrator>>

NextFO ==
    \/ \E st \in FoStreams, m \in MetricsIn, a \in AudioIn :
           DecideProcessingMode(st, m, a)
    \/ \E st \in FoStreams, e \in Errors,
          cm \in {"STREAMING", "BUFFERED"} :
           HandleProcessingError(st, e, cm)
    \/ \E st \in FoStreams : RecordSuccess(st)
    \/ \E st \in FoStreams, rs \in Reasons : FoRecordFailure(st, rs)
    \/ \E st \in FoStreams : ShouldAttemptRecoveryCall(st)
    \/ \E st \in FoStreams : AttemptRecovery(st)
    \/ \E st \in FoStreams, md \in {"STREAMING", "BUFFERED"} :
           SetModeForStream(st, md)
    \/ \E st \in FoStreams : ResetStream(st)
    \/ FoTick

SpecFO == Init /\ [][NextFO]_vars


\* ---------------------------------- _process_responses and its callback
\* backend/streaming_stt.py: the response loop of one speaker's session
\* with the on_transcript callback of StreamingSTTService. Results are
\* numbered in the order the recognizer emits them.

\* the loop runs on without waiting for the callback it called
AwaitedNever(C) == TRUE
\* `await self._transcript_callback(...)`: the loop takes the next result
\* once the callback has returned
Awaited(C) == DOMAIN C = {}

\* the callback returns or raises: its call is over
Returned(C, i) == [j \in DOMAIN C \ {i} |-> C[j]]

\* the loop takes the next result and calls on_transcript, which goes on
\* to translate a final transcript that is not blank, or to synthesize it
\* when its translation is cached, and returns at once otherwise
TakeResult(is_final, blank, cached) ==
    /\ Awaited(in_callback)
    /\ results_taken < MaxResults
    /\ results_taken' = results_taken + 1
    /\ in_callback' =
          IF is_final /\ ~blank
          THEN Put(in_callback, results_taken + 1,
                   [pc |-> IF cached THEN "tts" ELSE "translate",
                    cached |-> cached])
          ELSE in_callback
    /\ UNCHANGED broadcast_log
    /\ UNCHANGED notResponses

\* real_translation returns or raises in the call for result i
PrTranslateReturn(i) ==
    /\ i \in DOMAIN in_callback
    /\ in_callback[i].pc = "translate"
    /\ \E ok \in BOOLEAN :
         in_callback' = IF ok THEN [in_callback EXCEPT ![i].pc = "tts"]
                        ELSE Returned(in_callback, i)
    /\ UNCHANGED <<results_taken, broadcast_log>>
    /\ UNCHANGED notResponses

\* real_text_to_speech returns the audio, with which broadcast_callback is
\* called, or raises
PrSynthesizeReturn(i) ==
    /\ i \in DOMAIN in_callback
    /\ in_callback[i].pc = "tts"
    /\ \E ok \in BOOLEAN :
         IF ok
         THEN /\ in_callback' = [in_callback EXCEPT ![i].pc = "bcast"]
              /\ broadcast_log' = Append(broadcast_log, i)
         ELSE /\ in_callback' = Returned(in_callback, i)
              /\ UNCHANGED broadcast_log
    /\ UNCHANGED results_taken
    /\ UNCHANGED notResponses

\* broadcast_callback returns or raises
PrBroadcastReturn(i) ==
    /\ i \in DOMAIN in_callback
    /\ in_callback[i].pc = "bcast"
    /\ in_callback' = Returned(in_callback, i)
    /\ UNCHANGED <<results_taken, broadcast_log>>
    /\ UNCHANGED notResponses

NextPr ==
    \/ \E f \in Forwarded, blank \in BOOLEAN, cached \in BOOLEAN :
          TakeResult(f, blank, cached)
    \/ \E i \in 1..MaxResults : PrTranslateReturn(i)
    \/ \E i \in 1..MaxResults : PrSynthesizeReturn(i)
    \/ \E i \in 1..MaxResults : PrBroadcastReturn(i)

SpecPr == Init /\ [][NextPr]_vars

\* -------------------------------------------------- AdaptiveStreamBuffer
\* backend/adaptive_stream_buffer.py. A chunk is its AudioChunkMetrics:
\* size in bytes, timestamp in tenths of a second, quality_score in
\* hundredths.
ChunkSizes == {1000, 6000}
QualityScores == {0, 90}

RECURSIVE SumOf(_, _)
SumOf(q, f) == IF q = << >> THEN 0 ELSE q[1][f] + SumOf(Tail(q), f)

RECURSIVE MaxSize(_)
MaxSize(q) ==
    IF q = << >> THEN 0
    ELSE LET m == MaxSize(Tail(q)) IN IF q[1].size > m THEN q[1].size ELSE m

\* _get_recent_chunks(window) at time t
RECURSIVE RecentChunks(_, _, _)
RecentChunks(q, t, window) ==
    IF q = << >> THEN << >>
    ELSE IF q[1].timestamp >= t - window
         THEN <<q[1]>> \o RecentChunks(Tail(q), t, window)
         ELSE RecentChunks(Tail(q), t, window)

\* recent_chunks[-3:]
LastThree(q) == IF Len(q) <= 3 THEN q ELSE SubSeq(q, Len(q) - 2, Len(q))

\* the chunks whose quality_score is counted in the mean
RECURSIVE Scored(_)
Scored(q) ==
    IF q = << >> THEN << >>
    ELSE IF q[1].quality_score > 0 THEN <<q[1]>> \o Scored(Tail(q))
         ELSE Scored(Tail(q))

\* _calculate_analytics for a list of chunks that is not empty, kept as
\* the sums the comparisons of _decide_mode_from_analytics need: n chunks
\* of total bytes over span tenths (at least one tenth for the
\* frequency), nq scores of sum quality, expected chunks in fortieths
Analytics(q) ==
    LET time_span == q[Len(q)].timestamp - q[1].timestamp IN
    [n |-> Len(q), total |-> SumOf(q, "size"),
     span |-> IF time_span > 1 THEN time_span ELSE 1,
     nq |-> Len(Scored(q)), quality |-> SumOf(Scored(q), "quality_score"),
     expected |-> IF time_span * 4 > 10 THEN time_span * 4 ELSE 10]

\* streaming_score of _decide_mode_from_analytics
StreamingScore(a, recent) ==
    (IF a.total > StreamingThreshold * a.n THEN 3
     ELSE IF MaxSize(LastThree(recent)) > StreamingThreshold THEN 2 ELSE 0)
    + (IF a.n * 10 > FrequencyThreshold * a.span THEN 2 ELSE 0)
    + (IF a.nq > 0 /\ a.quality > QualityThreshold * a.nq THEN 2 ELSE 0)
    + (IF a.n * 100 > 8 * a.expected THEN 1 ELSE 0)

\* buffered_score of _decide_mode_from_analytics
BufferedScore(a) ==
    (IF /\ 2 * a.total < StreamingThreshold * a.n
        /\ a.n * 10 < FrequencyThreshold * a.span
     THEN 2 ELSE 0)
    + (IF 2 * a.n * 10 < FrequencyThreshold * a.span THEN 3 ELSE 0)
    + (IF a.nq = 0 \/ 2 * a.quality < QualityThreshold * a.nq
       THEN 2 ELSE 0)

\* the decision of _decide_mode_from_analytics with its hysteresis
DecideModeFromAnalytics(mode, recent) ==
    LET a == Analytics(recent) IN
    IF mode = "STREAMING"
    THEN IF BufferedScore(a) > StreamingScore(a, recent)
         THEN "BUFFERED" ELSE "STREAMING"
    ELSE IF StreamingScore(a, recent) >= BufferedScore(a)
         THEN "STREAMING" ELSE "BUFFERED"

\* _analyze_and_decide_mode on buffer B at time t
AnalyzeAndDecideMode(B, t) ==
    LET recent == RecentChunks(B.chunks, t, AnalysisWindow) IN
    IF Len(B.chunks) < 2 THEN "BUFFERED"
    ELSE IF recent = << >> THEN B.current_mode
    ELSE DecideModeFromAnalytics(B.current_mode, recent)

\* add_chunk on buffer B at time t: the buffer it leaves; current_mode of
\* the result is what the call returns
AddChunk(B, size, quality_score, t) ==
    LET B1 == [B EXCEPT
                 !.chunks = Append(@, [size |-> size, timestamp |-> t,
                                       quality_score |-> quality_score]),
                 !.started = TRUE,
                 !.start_time = IF B.started THEN @ ELSE t]
    IN  [B1 EXCEPT !.current_mode = AnalyzeAndDecideMode(B1, t)]

\* clear(): current_mode is kept
Cleared(B) == [B EXCEPT !.chunks = << >>, !.started = FALSE,
                        !.start_time = 0]

AbAddChunk(size, quality_score) ==
    /\ Len(abuf.chunks) < MaxAbChunks
    /\ abuf' = AddChunk(abuf, size, quality_score, abnow)
    /\ LET recent == RecentChunks(abuf'.chunks, abnow, AnalysisWindow)
           a == Analytics(recent)
       IN  ablast' = [before |-> abuf.current_mode,
                      after |-> abuf'.current_mode,
                      streaming |-> StreamingScore(a, recent),
                      buffered |-> BufferedScore(a)]
    /\ UNCHANGED abnow
    /\ UNCHANGED notBuffer

AbClear ==
    /\ abuf.chunks # << >>
    /\ abuf' = Cleared(abuf)
    /\ UNCHANGED <<abnow, ablast>>
    /\ UNCHANGED notBuffer

AbTick ==
    /\ abnow + AbStep <= MaxAbTime
    /\ abnow' = abnow + AbStep
    /\ UNCHANGED <<abuf, ablast>>
    /\ UNCHANGED notBuffer

NextAB ==
    \/ \E size \in ChunkSizes, q \in QualityScores : AbAddChunk(size, q)
    \/ AbClear
    \/ AbTick

SpecAB == Init /\ [][NextAB]_vars

\* --------------------------------------------------------- StreamManager
\* backend/streaming_stt.py: the module's stream_manager and the
\* StreamingSpeechToText sessions it holds, for one stream_id. A chunk is a
\* positive number; 0 on a queue is the None that stop_streaming puts.
SmStream == "A"

QueuedChunks(q) == Range(q) \ {0}

\* stop_streaming up to its wait for the streaming task; the history of
\* the session ends with it
Stopped(O, o) ==
    [O EXCEPT ![o].is_streaming = FALSE, ![o].queue = Append(@, 0),
              ![o].born = 0, ![o].fed = FALSE, ![o].continuous = FALSE]

\* _cleanup_streaming_resources: the task is forgotten, the queue emptied
Cleaned(O, o) ==
    [O EXCEPT ![o].task = "none", ![o].queue = << >>]

\* start_streaming succeeded on the object constructed n-th
Started(O, n, t) ==
    [O EXCEPT ![n] = [is_streaming |-> TRUE, task |-> "running",
                      polling |-> TRUE, queue |-> << >>, born |-> t,
                      fed |-> FALSE, continuous |-> TRUE]]

\* create_stream after its close_stream: a new object is constructed and
\* started; it is stored under the stream_id unless starting raised
StartNew(O, M, ok) ==
    /\ nobj' = nobj + 1
    /\ IF ok
       THEN /\ obj' = Started(O, nobj + 1, mnow)
            /\ mstreams' = Put(M, SmStream, nobj + 1)
       ELSE /\ obj' = O
            /\ mstreams' = M

\* what follows stop_streaming's wait in the coroutine `op`: the finally
\* clause cleans up, close_stream deletes the entry of the stream_id (a
\* missing entry raises KeyError, which close_stream logs), and
\* create_stream goes on to start a new session
AfterWait(op, old, O, ok) ==
    /\ IF op = "create"
       THEN /\ StartNew(Cleaned(O, old), Drop(mstreams, SmStream), ok)
            /\ lost' = lost \cup QueuedChunks(O[old].queue)
       ELSE /\ obj' = Cleaned(O, old)
            /\ mstreams' = Drop(mstreams, SmStream)
            /\ UNCHANGED <<nobj, lost>>

\* objects that suspended create_stream coroutines will still construct
Reserved == Cardinality({c \in Callers : coro[c].op = "create"})

\* create_stream and close_stream up to their first suspension: they run
\* to the end unless stop_streaming has a running task to wait for
ManagerCall(c, op, ok) ==
    /\ op = "create" => nobj + Reserved < MaxSessions
    /\ IF SmStream \notin DOMAIN mstreams
       THEN /\ op = "create"
            /\ StartNew(obj, mstreams, ok)
            /\ UNCHANGED <<coro, lost>>
       ELSE LET old == mstreams[SmStream]
            IN  IF ~ obj[old].is_streaming
                THEN /\ IF op = "create"
                        THEN StartNew(obj, Drop(mstreams, SmStream), ok)
                        ELSE /\ mstreams' = Drop(mstreams, SmStream)
                             /\ UNCHANGED <<obj, nobj>>
                     /\ UNCHANGED <<coro, lost>>
                ELSE IF obj[old].task = "running"
                THEN /\ obj' = Stopped(obj, old)
                     /\ coro' = [coro EXCEPT ![c] =
                                    [pc |-> "stopping", op |-> op,
                                     old |-> old]]
                     /\ UNCHANGED <<mstreams, nobj, lost>>
                ELSE /\ AfterWait(op, old, Stopped(obj, old), ok)
                     /\ UNCHANGED coro
    /\ UNCHANGED <<mnow, nchunks, accepted, delivered, notStreamManager>>

\* StreamManager.create_stream
CreateStream(c) ==
    /\ coro[c].pc = "idle"
    /\ \E ok \in BOOLEAN : ManagerCall(c, "create", ok)

\* StreamManager.close_stream
ManagerCloseStream(c) ==
    /\ coro[c].pc = "idle"
    /\ SmStream \in DOMAIN mstreams
    /\ ManagerCall(c, "close", TRUE)

\* the wait of stop_streaming ends: the task finished or was cancelled
\* after the timeout
StopReturn(c) ==
    /\ coro[c].pc = "stopping"
    /\ \E ok \in BOOLEAN :
           AfterWait(coro[c].op, coro[c].old,
                     [obj EXCEPT ![coro[c].old].task = "done"], ok)
    /\ coro' = [coro EXCEPT ![c] = NoCoroutine]
    /\ UNCHANGED <<mnow, nchunks, accepted, delivered, notStreamManager>>

\* StreamManager.send_audio and send_audio_chunk for the next chunk
SendAudio ==
    /\ nchunks < MaxChunks
    /\ nchunks' = nchunks + 1
    /\ IF /\ SmStream \in DOMAIN mstreams
          /\ obj[mstreams[SmStream]].is_streaming
       THEN /\ obj' = [obj EXCEPT
                          ![mstreams[SmStream]].queue =
                              Append(@, nchunks + 1),
                          ![mstreams[SmStream]].fed = TRUE]
            /\ accepted' = accepted \cup {nchunks + 1}
       ELSE UNCHANGED <<obj, accepted>>
    /\ UNCHANGED <<mnow, mstreams, nobj, coro, delivered, lost,
                   notStreamManager>>

\* _create_request_stream, run by the client's thread: it takes the head
\* of the queue while is_streaming held when it last looked
RequestStream(o) ==
    /\ obj[o].polling
    /\ IF obj[o].queue = << >>
       THEN /\ ~ obj[o].is_streaming
            /\ obj' = [obj EXCEPT ![o].polling = FALSE]
            /\ UNCHANGED delivered
       ELSE IF Head(obj[o].queue) = 0
       THEN /\ obj' = [obj EXCEPT ![o].polling = FALSE,
                                  ![o].queue = Tail(@)]
            /\ UNCHANGED delivered
       ELSE /\ obj' = [obj EXCEPT ![o].polling = obj[o].is_streaming,
                                  ![o].queue = Tail(@)]
            /\ delivered' = delivered \cup {Head(obj[o].queue)}
    /\ UNCHANGED <<mnow, mstreams, nobj, coro, nchunks, accepted, lost,
                   notStreamManager>>

\* _process_responses returns: the response stream ended or raised
TaskEnds(o) ==
    /\ obj[o].task = "running"
    /\ obj' = [obj EXCEPT ![o].task = "done"]
    /\ UNCHANGED <<mnow, mstreams, nobj, coro, nchunks, accepted,
                   delivered, lost, notStreamManager>>

SmTick ==
    /\ mnow + SmStep <= MaxSmTime
    /\ mnow' = mnow + SmStep
    /\ obj' = [o \in 1..MaxSessions |->
                  IF obj[o].is_streaming
                  THEN [obj[o] EXCEPT !.continuous = @ /\ obj[o].fed,
                                      !.fed = FALSE]
                  ELSE obj[o]]
    /\ UNCHANGED <<mstreams, nobj, coro, nchunks, accepted, delivered,
                   lost, notStreamManager>>

NextSM ==
    \/ \E c \in Callers : CreateStream(c)
    \/ \E c \in Callers : ManagerCloseStream(c)
    \/ \E c \in Callers : StopReturn(c)
    \/ SendAudio
    \/ \E o \in 1..MaxSessions : RequestStream(o)
    \/ \E o \in 1..MaxSessions : TaskEnds(o)
    \/ SmTick

SpecSM == Init /\ [][NextSM]_vars


\* ------------------------------------------------------ StreamingSession
\* backend/streaming_stt_manager.py: one StreamingSession and the callers
\* of its send_audio. Nothing takes chunks off _audio_queue:
\* _run_streaming_recognition does not read it and
\* _audio_request_generator is never started.

\* start up to its wait for _started_event
SessionStart ==
    /\ state = "idle"
    /\ state' = "starting"
    /\ UNCHANGED <<is_active, audio_queue, chunks_sent, snd, nsent, qlast,
                   notSession>>

\* the wait of start ends: the event was set, or the 10 s passed
StartReturn ==
    /\ state = "starting"
    /\ \E ok \in BOOLEAN :
           IF ok THEN state' = "active" /\ is_active' = TRUE
                 ELSE state' = "error" /\ UNCHANGED is_active
    /\ UNCHANGED <<audio_queue, chunks_sent, snd, nsent, qlast, notSession>>

\* stop up to its wait for the cancelled response task
SessionStop ==
    /\ state \notin {"stopped", "error", "stopping"}
    /\ state' = "stopping"
    /\ is_active' = FALSE
    /\ UNCHANGED <<audio_queue, chunks_sent, snd, nsent, qlast, notSession>>

StopDone ==
    /\ state = "stopping"
    /\ state' = "stopped"
    /\ UNCHANGED <<is_active, audio_queue, chunks_sent, snd, nsent, qlast,
                   notSession>>

\* _audio_queue.put completed for chunk ch
Enqueued(ch) ==
    /\ audio_queue' = Append(audio_queue, ch)
    /\ chunks_sent' = chunks_sent + 1

\* send_audio up to the first suspension of put
SessionSendAudio(p) ==
    /\ snd[p].pc = "idle"
    /\ nsent < MaxSent
    /\ nsent' = nsent + 1
    /\ LET ch == nsent + 1
           full == Len(audio_queue) >= QueueMaxSize
       IN  IF ~ is_active
           THEN /\ qlast' = [sender |-> p, chunk |-> ch, full |-> full,
                             blocked |-> FALSE, raised |-> TRUE]
                /\ UNCHANGED <<audio_queue, chunks_sent, snd>>
           ELSE IF ~ full
           THEN /\ Enqueued(ch)
                /\ qlast' = [sender |-> p, chunk |-> ch, full |-> FALSE,
                             blocked |-> FALSE, raised |-> FALSE]
                /\ UNCHANGED snd
           ELSE /\ snd' = [snd EXCEPT ![p] =
                              [pc |-> "putting", chunk |-> ch]]
                /\ qlast' = [sender |-> p, chunk |-> ch, full |-> TRUE,
                             blocked |-> TRUE, raised |-> FALSE]
                /\ UNCHANGED <<audio_queue, chunks_sent>>
    /\ UNCHANGED <<state, is_active, notSession>>

\* the suspended put ends: a slot came free, or wait_for gave up after
\* 1.0 s and send_audio raises StreamingError("Audio queue is full")
PutResume(p) ==
    /\ snd[p].pc = "putting"
    /\ IF Len(audio_queue) < QueueMaxSize
       THEN /\ Enqueued(snd[p].chunk)
            /\ qlast' = [sender |-> p, chunk |-> snd[p].chunk,
                         full |-> TRUE, blocked |-> TRUE, raised |-> FALSE]
       ELSE /\ qlast' = [sender |-> p, chunk |-> snd[p].chunk,
                         full |-> TRUE, blocked |-> TRUE, raised |-> TRUE]
            /\ UNCHANGED <<audio_queue, chunks_sent>>
    /\ snd' = [snd EXCEPT ![p] = NoSend]
    /\ UNCHANGED <<state, is_active, nsent, notSession>>

NextSS ==
    \/ SessionStart
    \/ StartReturn
    \/ SessionStop
    \/ StopDone
    \/ \E p \in Senders : SessionSendAudio(p)
    \/ \E p \in Senders : PutResume(p)

SpecSS == Init /\ [][NextSS]_vars

\* ------------------------------------------------------ HybridSTTService
\* backend/hybrid_stt_service.py: one HybridSTTService built with its
\* defaults (enable_streaming, quality_threshold 0.7) and one caller that
\* hands the chunks of one stream to process_audio_chunk, one call at a
\* time, and may close the stream between two calls. A call is suspended
\* in session.start(), in the put of session.send_audio and in
\* enhanced_stt_service.process_chunk; what runs between two suspensions
\* is one step. The service's adaptive_buffer is abuf, its
\* fallback_orchestrator is stream_status, last_failure_time and
\* fallback_history; both read the clock abnow, the orchestrator in whole
\* seconds from FoStartTime on.
HyStream == "A"

\* quality_threshold=0.7, in ten-thousandths
HyQualityThreshold == 7000

\* the mean latency of the recorded request timings, in ms
HyLatencies == {100, 800}

\* quality_score < quality_threshold for the ConnectionMetrics of
\* get_current_metrics: ConnectionMetrics(0, 0, 1, 0) without timings,
\* else the mean latency lat and the success rate T.ok / T.total
HyPoorQuality(T, lat) ==
    IF T.total = 0 THEN 1000 * 4 < HyQualityThreshold
    ELSE (IF lat > 1000 THEN 0 ELSE 1000 - lat) * 4 * T.total
             + T.ok * 6000 < HyQualityThreshold * T.total

\* decide_processing_mode for the status S, the timings T and the
\* characteristics {'frequency': chunk_frequency of a, 'size': size}
HyDecided(S, L, t, T, lat, a, size) ==
    IF ShouldForceFallback(S, L, HyStream, t) THEN "BUFFERED"
    ELSE IF HyPoorQuality(T, lat) THEN "BUFFERED"
    ELSE IF a.n * 10 > 8 * a.span \/ size > 5000 THEN "STREAMING"
    ELSE IF a.n * 10 < 3 * a.span /\ size < 2000 THEN "BUFFERED"
    ELSE IF S[HyStream].current_mode # "HYBRID"
         THEN S[HyStream].current_mode
    ELSE global_mode

\* should_fallback of handle_processing_error for the errors the service
\* hands it, whose messages hold none of the keywords
HyShouldFallback(S, current_mode, t) ==
    \/ ThresholdReached(Failed(S, HyStream, t)[HyStream].consecutive_failures)
    \/ current_mode = "STREAMING"

\* stream_status after handle_processing_error(stream_id, e, current_mode)
HyHandled(S, current_mode, t) ==
    IF HyShouldFallback(S, current_mode, t)
    THEN [Failed(S, HyStream, t) EXCEPT ![HyStream].current_mode = "BUFFERED"]
    ELSE Failed(S, HyStream, t)

\* fallback_history after the same call
HyLogged(H, S, current_mode, t) ==
    IF HyShouldFallback(S, current_mode, t)
    THEN AppendEvent(H, Event(HyStream, current_mode, "BUFFERED"))
    ELSE H

\* set_mode_for_stream
HyModeSet(S, st, mode) ==
    [GetStreamStatus(S, st) EXCEPT ![st].current_mode = mode]

\* should_release_buffer on buffer B at time t
ShouldReleaseBuffer(B, t) ==
    LET recent == RecentChunks(B.chunks, t, 10) IN
    /\ B.chunks # << >>
    /\ B.started
    /\ \/ t - B.start_time >= BufferedTimeout
       \/ SumOf(B.chunks, "size") > StreamingThreshold * 2
       \/ /\ recent # << >>
          /\ Analytics(recent).nq > 0
          /\ Analytics(recent).quality * 10
                 > QualityThreshold * 12 * Analytics(recent).nq

\* EnhancedSpeechToTextService.process_chunk with an exception for the
\* audio it has no transcription for
ProcessChunkRaises(audio) == IF audio > 1000 THEN "transcript" ELSE "raise"
\* EnhancedSpeechToTextService.process_chunk of hybrid_stt_service.py
ProcessChunk(audio) == IF audio > 1000 THEN "transcript" ELSE "none"

\* the except clause around _process_streaming re-raising
StreamingErrorRaised == "raise"
\* process_audio_chunk after _process_streaming raised: the except clause
\* sets transcription = None and the call goes on to the buffered path
StreamingErrorSwallowed == "buffered"

\* the call in hand is c, the orchestrator is S, L, H and the buffer is B
HyState(c, S, L, H, B) ==
    /\ hy' = c
    /\ stream_status' = S
    /\ last_failure_time' = L
    /\ fallback_history' = H
    /\ abuf' = B

Ended(c, S, buffered, raised, errors) ==
    [streaming |-> c.streaming, buffered |-> buffered, raised |-> raised,
     errors |-> errors, before |-> c.before,
     after |-> S[HyStream].consecutive_failures,
     mode |-> S[HyStream].current_mode, dead |-> c.dead,
     created |-> c.created]

\* the except clause of process_audio_chunk: the error is handed to
\* handle_processing_error with get_mode_for_stream and raised
HyRaise(c, S, L, H, B, buffered) ==
    LET S0 == GetStreamStatus(S, HyStream)
        mode == GetModeForStream(S, HyStream)
        t == fnow
    IN  /\ HyState(HyIdle, HyHandled(S0, mode, t), Put(L, HyStream, t),
                   HyLogged(H, S0, mode, t), B)
        /\ hlast' = Ended(c, HyHandled(S0, mode, t), buffered, TRUE,
                          c.errors + 1)
        /\ UNCHANGED timings

\* process_audio_chunk from the return of _process_buffered on
HyReturn(c, S, L, H, B, transcription) ==
    LET S1 == HyModeSet(S, HyStream, "BUFFERED")
        S2 == IF transcription = "transcript"
              THEN Succeeded(S1, HyStream) ELSE S1
    IN  /\ HyState(HyIdle, S2, L, H, B)
        /\ hlast' = Ended(c, S2, TRUE, FALSE, c.errors)
        /\ timings' = [ok |-> timings.ok
                                + (IF transcription = "transcript"
                                   THEN 1 ELSE 0),
                       total |-> timings.total + 1]

\* _process_buffered up to process_chunk, or to its return of None
HyBuffered(c, S, L, H, B) ==
    IF c.buffer_mode = "BUFFERED" /\ ShouldReleaseBuffer(B, abnow)
    THEN /\ HyState([c EXCEPT !.pc = "chunk",
                              !.audio = SumOf(B.chunks, "size"),
                              !.clear = TRUE], S, L, H, B)
         /\ UNCHANGED <<timings, hlast>>
    ELSE IF c.buffer_mode = "STREAMING"
    THEN /\ HyState([c EXCEPT !.pc = "chunk", !.audio = c.size,
                              !.clear = FALSE], S, L, H, B)
         /\ UNCHANGED <<timings, hlast>>
    ELSE HyReturn(c, S, L, H, B, "none")

\* the except clause of _process_streaming and what process_audio_chunk
\* does with the error it re-raises
HyStreamingFailed(c, S, L, H, B) ==
    LET t == fnow
        S1 == HyHandled(S, "STREAMING", t)
        L1 == Put(L, HyStream, t)
        H1 == HyLogged(H, S, "STREAMING", t)
        c1 == [c EXCEPT !.streaming = "failed", !.errors = @ + 1]
    IN  IF StreamingErrorSwallowed = "buffered"
        THEN HyBuffered(c1, S1, L1, H1, B)
        ELSE HyRaise(c1, S1, L1, H1, B, FALSE)

\* process_audio_chunk up to its first suspension, or to its end
HyProcessAudioChunk(size, quality_score, lat) ==
    /\ hy.pc = "idle"
    /\ ncalls < MaxHyCalls
    /\ Len(abuf.chunks) < MaxAbChunks
    /\ timings.total = 0 => quality_score = 0
    /\ ncalls' = ncalls + 1
    /\ LET B == AddChunk(abuf, size, quality_score, abnow)
           S == GetStreamStatus(stream_status, HyStream)
           L == last_failure_time
           H == fallback_history
           a == Analytics(RecentChunks(B.chunks, abnow, AnalysisWindow))
           c == [HyIdle EXCEPT
                   !.size = size, !.buffer_mode = B.current_mode,
                   !.before = S[HyStream].consecutive_failures]
       IN  IF HyDecided(S, L, fnow, timings, lat, a, size) = "STREAMING"
           THEN IF ~ hsession.exists
                THEN /\ hsession' = [exists |-> TRUE, state |-> "starting",
                                     is_active |-> FALSE, queued |-> 0]
                     /\ HyState([c EXCEPT !.pc = "start",
                                          !.created = TRUE], S, L, H, B)
                     /\ UNCHANGED <<timings, hlast>>
                ELSE IF hsession.is_active
                THEN /\ HyState([c EXCEPT !.pc = "send"], S, L, H, B)
                     /\ UNCHANGED <<hsession, timings, hlast>>
                ELSE /\ HyStreamingFailed([c EXCEPT !.dead = TRUE],
                                          S, L, H, B)
                     /\ UNCHANGED hsession
           ELSE /\ HyBuffered(c, S, L, H, B)
                /\ UNCHANGED hsession
    /\ UNCHANGED <<fnow, flast, streak, abnow, ablast, notHybrid>>

\* the wait of session.start() ends: the event was set and send_audio
\* goes up to its put, or the 10 s passed and start raises
HyStartReturn(ok) ==
    /\ hy.pc = "start"
    /\ IF ok
       THEN /\ hsession' = [hsession EXCEPT !.state = "active",
                                            !.is_active = TRUE]
            /\ hy' = [hy EXCEPT !.pc = "send"]
            /\ UNCHANGED <<stream_status, last_failure_time,
                           fallback_history, abuf, timings, hlast>>
       ELSE /\ hsession' = [hsession EXCEPT !.state = "error"]
            /\ HyStreamingFailed(hy, stream_status, last_failure_time,
                                 fallback_history, abuf)
    /\ UNCHANGED <<ncalls, fnow, flast, streak, abnow, ablast, notHybrid>>

\* the put of send_audio ends: the chunk is queued and _process_streaming
\* returns None, or the queue stayed full for 1.0 s and send_audio raises
HySendReturn ==
    /\ hy.pc = "send"
    /\ IF hsession.queued < QueueMaxSize
       THEN /\ hsession' = [hsession EXCEPT !.queued = @ + 1]
            /\ HyBuffered([hy EXCEPT !.streaming = "accepted"],
                          stream_status, last_failure_time,
                          fallback_history, abuf)
       ELSE /\ HyStreamingFailed(hy, stream_status, last_failure_time,
                                 fallback_history, abuf)
            /\ UNCHANGED hsession
    /\ UNCHANGED <<ncalls, fnow, flast, streak, abnow, ablast, notHybrid>>

\* process_chunk ends, and with it _process_buffered and the call
HyChunkReturn ==
    /\ hy.pc = "chunk"
    /\ IF ProcessChunk(hy.audio) = "raise"
       THEN HyRaise(hy, stream_status, last_failure_time, fallback_history,
                    abuf, TRUE)
       ELSE HyReturn(hy, stream_status, last_failure_time,
                     fallback_history,
                     IF hy.clear THEN Cleared(abuf) ELSE abuf,
                     ProcessChunk(hy.audio))
    /\ UNCHANGED <<hsession, ncalls, fnow, flast, streak, abnow, ablast,
                   notHybrid>>

\* close_stream between two calls: the session is stopped and deleted
\* and the orchestrator forgets the stream
HyCloseStream ==
    /\ hy.pc = "idle"
    /\ hsession.exists \/ HyStream \in DOMAIN stream_status
    /\ hsession' = NoHySession
    /\ stream_status' = [s \in DOMAIN stream_status \ {HyStream} |->
                            stream_status[s]]
    /\ last_failure_time' = [s \in DOMAIN last_failure_time \ {HyStream} |->
                                last_failure_time[s]]
    /\ UNCHANGED <<hy, timings, ncalls, hlast, fallback_history, abuf,
                   fnow, flast, streak, abnow, ablast, notHybrid>>

HyTick ==
    /\ abnow + AbStep <= MaxAbTime
    /\ abnow' = abnow + AbStep
    /\ fnow' = FoStartTime + abnow' \div 10
    /\ UNCHANGED <<hvars, stream_status, last_failure_time,
                   fallback_history, flast, streak, abuf, ablast,
                   notHybrid>>

NextHy ==
    \/ \E size \in ChunkSizes, q \in QualityScores, lat \in HyLatencies :
           HyProcessAudioChunk(size, q, lat)
    \/ \E ok \in BOOLEAN : HyStartReturn(ok)
    \/ HySendReturn
    \/ HyChunkReturn
    \/ HyCloseStream
    \/ HyTick

SpecHy == Init /\ [][NextHy]_vars

\* ------------------------------------------------------ claims C1 .. C3
\* C1: every speaker message whose recognition yielded a finalized
\* transcript ends with exactly one broadcast_to_stream call, neither zero
\* nor two.
C1_ExactlyOneBroadcast ==
    (last.s \in SpeakSessions /\ last.final) => last.nb = 1

\* C2: no recognize, translate or synthesize RPC is started by any session
\* at a moment at which the shared breaker is open.
C2_NoRpcWhileOpen ==
    \A s \in Sessions : sess[s].pc = "rpc" => sess[s].rpcAt # "open"

\* C3: the audio a speaker session hands to broadcast_to_stream for its
\* stream is derived only from chunks sent by the speaker of that stream.
C3_FanOutIsolation ==
    \A s \in SpeakSessions :
        sess[s].pc = "bcast" => sess[s].text \subseteq {StreamOf(s)}

\* ------------------------------------------------------ claims C4 .. C6
\* C4: a broadcast_to_stream(A, data) call that has stopped writing has
\* attempted a write on every socket that was registered under A when it
\* was called, and on no socket that was not registered under A.
C4_WritesToAllOfStream ==
    \A b \in Bcasts :
        bc[b].pc \in {"done", "stuck"} =>
            /\ bc[b].reg0 \subseteq Range(bc[b].att)
            /\ Range(bc[b].att) \subseteq bc[b].reg0

\* C5: a socket whose write failed in a broadcast to s is not registered
\* under s when that broadcast returns, and a broadcast to s that is called
\* after the failure attempts no write on it unless it was added again.
C5_FailedListenerDropped ==
    \A b \in Bcasts :
        /\ bc[b].pc = "done" =>
              \A x \in Range(bc[b].failed) :
                 <<bc[b].stream, x>> \in failedOnce =>
                    ~Registered(streams, bc[b].stream, x)
        /\ bc[b].pc = "sending" =>
              ~(bc[b].cur \in bc[b].ban0
                /\ <<bc[b].stream, bc[b].cur>> \in failedOnce)

\* C6: when a write raised in a broadcast and the send loop is over, every
\* other socket of the stream's set at the call got exactly one write
\* attempt and broadcast_to_stream has returned.
C6_OthersStillServed ==
    \A b \in Bcasts :
        (bc[b].failed # << >> /\ bc[b].pc # "sending") =>
            /\ bc[b].pc = "done"
            /\ \A x \in bc[b].reg0 :
                  Cardinality({i \in DOMAIN bc[b].att : bc[b].att[i] = x}) = 1

\* ------------------------------------------------------ claims C7 .. C10
\* C7: a message received when the breaker has been open for at least
\* reset_timeout is admitted to the pipeline, not short-circuited to the
\* fallback payload.
C7_ProbeAfterResetTimeout == ~(last.how = "open" /\ last.due)

\* C8: each expiry of the outer pipeline timeout increases the breaker's
\* failure count by exactly one, on the /ws and on the speaker endpoint.
C8_TimeoutCountsOnce ==
    [][\A s \in Sessions :
          Timeout(s) => cb'.fail_counter = cb.fail_counter + 1]_vars

\* C9: after a pipeline invocation completed successfully while the
\* breaker is not open, the breaker's failure counter is 0.
C9_SuccessResetsCounter ==
    [][\A s \in Sessions :
          (BcastReturn(s) /\ cb.state # "open") => cb'.fail_counter = 0]_vars

\* C10: from a closed breaker with zero failures, k consecutive messages
\* that failed after exhausting their retries leave the counter at k and the
\* breaker closed while k < fail_max and the breaker open from k = fail_max
\* on; a message received after that gets the fallback payload and no
\* pipeline is run for it.
C10_RunInv ==
    run # Taint =>
        IF run < FailMax
        THEN cb.state = "closed" /\ cb.fail_counter = run
        ELSE cb.state = "open"

C10_NextShortCircuited ==
    \A s \in Sessions :
        (Receive(s) /\ run # Taint /\ run >= FailMax) =>
            /\ sess'[s].pc = "idle"
            /\ last' = [s |-> s, how |-> "open", final |-> FALSE, nb |-> 1,
                        due |-> last'.due]

C10_OpensAfterFailMax == [](C10_RunInv) /\ [][C10_NextShortCircuited]_vars

C10_Witness ==
    /\ run = FailMax
    /\ cb.state = "open"
    /\ last.how = "open"

\* ---------------------------------------------------- claims C11 .. C20
\* C11: an on_transcript call for a finalized, non-blank transcript whose
\* translation or synthesis failed has broadcast a payload (the fallback)
\* to the stream exactly once when it returns.
C11_FallbackBroadcastOnce ==
    tlast.failedAt \in {"translate", "tts"} => tlast.nb = 1

\* C12: a connected listener to which every ping could be written and
\* whose client answers every ping within 5 s is never removed by the
\* keepalive check.
C12_AnsweringListenerKept ==
    \A x \in Sockets :
        (lep[x].pc = "open" /\ hist[x].answers /\ ~hist[x].lost)
        => ~hist[x].removed

\* C13: a listener that never answers pings is out of its stream's
\* listener set once more than PING_INTERVAL + PONG_TIMEOUT have passed
\* since the first ping was sent to it.
C13_SilentListenerRemoved ==
    \A x \in Sockets :
        (/\ hist[x].first_ping > 0
         /\ ~hist[x].answers
         /\ time > hist[x].first_ping + PingInterval + PongTimeout)
        => ~Registered(streams, lep[x].stream, x)

\* C14: every registered listener that has been connected for longer than
\* PING_INTERVAL was sent a ping within the last PING_INTERVAL.
C14_PingedWithinInterval ==
    \A x \in DOMAIN meta :
        time - meta[x].connected_at > PingInterval =>
            /\ meta[x].last_ping > 0
            /\ time - meta[x].last_ping <= PingInterval

\* C15: at any time at most one keepalive monitor loop is running.
Looping == {m \in Monitors : mon[m].pc \in {"ping", "sleep", "stuck"}}

InFlight(x) ==
    Cardinality({b \in Bcasts : bc[b].pc = "sending" /\ bc[b].cur = x})
    + Cardinality({m \in Monitors : mon[m].pc = "ping" /\ mon[m].cur = x})

C16_OneWriteInFlight == \A x \in Sockets : InFlight(x) <= 1

\* C17: a listener endpoint whose socket closed returns, has called
\* remove_listener exactly once, and its socket is not in the stream's
\* listener set afterwards.
C17_RemovedOnClose ==
    \A x \in Sockets :
        /\ lep[x].pc # "stuck"
        /\ lep[x].pc = "returned" =>
              /\ hist[x].removes = 1
              /\ ~Registered(streams, lep[x].stream, x)

\* C18: from every manager state, add_listener(s, x) followed by
\* remove_listener(s, x) returns and leaves get_listeners(s) as it was.
C18_AddThenRemove ==
    ~blocked =>
        \A st \in Streams, x \in Sockets :
            LET m2 == RemoveOne(AddOne(Manager, st, x, time), st, x) IN
            /\ ~m2.blocked
            /\ GetListeners(m2.streams, st) = GetListeners(streams, st)

\* C19: a repeated add_listener(s, x) leaves x registered once under s; a
\* repeated remove_listener(s, x) and a remove_listener of a socket or
\* stream that is not registered return and change nothing.
C19_Idempotent ==
    ~blocked =>
        \A st \in Streams, x \in Sockets :
            LET a1 == AddOne(Manager, st, x, time)
                a2 == AddOne(a1, st, x, time)
                r1 == RemoveOne(Manager, st, x)
                r2 == RemoveOne(r1, st, x)
            IN /\ a2 = a1
               /\ x \in GetListeners(a2.streams, st)
               /\ ~r1.blocked
               /\ r2 = r1
               /\ ~Registered(streams, st, x) => r1 = Manager

\* C21: an on_transcript call for a finalized transcript whose key was
\* translated successfully before issues no translate RPC and works with
\* the English text of that translation.
C21_SameTextNoRpc ==
    \A st \in Streams :
        ot[st].first # << >> =>
            /\ ot[st].pc # "translate"
            /\ ot[st].pc \in {"tts", "bcast"} =>
                  ot[st].translated = ot[st].first

\* C20: when the processing of a finalized transcript failed, the
\* translation cache holds no entry inserted while processing it.
C20_NoCacheOnFailure ==
    tlast.failedAt # "none" => tlast.kept = {}


\* the counter and the mode of a stream, 0 and "none" while it has no status
ConsecutiveOf(S, st) ==
    IF st \in DOMAIN S THEN S[st].consecutive_failures ELSE 0
ModeOf(S, st) ==
    IF st \in DOMAIN S THEN S[st].current_mode ELSE "none"

\* C22: in every step that leaves a stream with a status, its
\* consecutive_failures grows by exactly one if the step recorded a failure
\* for it (handle_processing_error, record_failure), is 0 if the step
\* recorded a success for it, and is unchanged by any other operation.
C22_CounterFollowsOutcomes ==
    [][\A st \in FoStreams :
          st \in DOMAIN stream_status' =>
              LET before == ConsecutiveOf(stream_status, st)
                  after == stream_status'[st].consecutive_failures
              IN  IF /\ flast'.st = st
                     /\ flast'.op \in {"handle_processing_error",
                                       "record_failure"}
                  THEN after = before + 1
                  ELSE IF flast'.st = st /\ flast'.op = "record_success"
                  THEN after = 0
                  ELSE after = before]_vars

\* a success recorded for a stream that had failed: the counter is back at 0
C22_Witness ==
    /\ flast.op = "record_success"
    /\ flast.st \in DOMAIN stream_status
    /\ stream_status[flast.st].last_failure_time > 0
    /\ stream_status[flast.st].consecutive_failures = 0

\* C23: every step that changes the current mode of a stream between
\* streaming and buffered appends exactly one event to fallback_history,
\* whose from_mode and to_mode are the modes before and after the step.
C23_ModeChangeLogged ==
    [][\A st \in FoStreams :
          LET before == ModeOf(stream_status, st)
              after == ModeOf(stream_status', st)
          IN  /\ before \in {"STREAMING", "BUFFERED"}
              /\ after \in {"STREAMING", "BUFFERED"}
              /\ before # after
              => fallback_history' =
                     Append(fallback_history, Event(st, before, after))]_vars

\* C24: handle_processing_error returns true exactly when the failure it
\* recorded reached failure_threshold, or the error classifies as quota or
\* resource limit, or current_mode is streaming; it returns true exactly
\* when it appended a fallback event to buffered; and after a true return
\* the mode of the stream is buffered.
C24_ReturnsTrueIffFallback ==
    [][flast'.op = "handle_processing_error" =>
          LET st == flast'.st
              cond ==
                  \/ ConsecutiveOf(stream_status, st) + 1 >= FailureThreshold
                  \/ flast'.reason \in {"API_QUOTA", "RESOURCE_LIMIT"}
                  \/ flast'.mode = "STREAMING"
              triggered ==
                  fallback_history' =
                      Append(fallback_history,
                             Event(st, flast'.mode, "BUFFERED"))
          IN  /\ flast'.ret <=> cond
              /\ flast'.ret <=> triggered
              /\ ~ flast'.ret => fallback_history' = fallback_history
              /\ flast'.ret => ModeOf(stream_status', st) = "BUFFERED"]_vars

\* a timeout error handled in buffered mode that reached the threshold and
\* returned true
C24_Witness ==
    /\ flast.op = "handle_processing_error"
    /\ flast.ret
    /\ flast.mode = "BUFFERED"
    /\ flast.reason = "TIMEOUT"
    /\ stream_status[flast.st].consecutive_failures = FailureThreshold
    /\ stream_status[flast.st].current_mode = "BUFFERED"

\* C25: a step changes the mode of a stream from buffered to streaming only
\* if, before the step, recovery_attempts is below max_recovery_attempts
\* and recovery_interval has passed since the last failure of the stream.
C25_RecoveryGated ==
    [][\A st \in FoStreams :
          /\ ModeOf(stream_status, st) = "BUFFERED"
          /\ ModeOf(stream_status', st) = "STREAMING"
          => /\ stream_status[st].recovery_attempts < MaxRecoveryAttempts
             /\ stream_status[st].last_failure_time > 0 =>
                   fnow - stream_status[st].last_failure_time
                       >= RecoveryInterval]_vars

\* C26: a mode decision for a stream that three streaming errors in a row
\* have left in buffered mode, made once recovery_interval has passed since
\* the last of them, returns streaming.
C26_DecisionRecovers ==
    flast.op = "decide_processing_mode" =>
        LET st == flast.st
        IN  /\ streak[st] >= FailureThreshold
            /\ stream_status[st].current_mode = "BUFFERED"
            /\ fnow - stream_status[st].last_failure_time >= RecoveryInterval
            => flast.mode = "STREAMING"

\* C27: a session that is streaming and has been sent audio in every clock
\* step since it started is never older than the restart deadline plus the
\* time stop_streaming waits for the old session to drain.
C27_SessionReplacedInTime ==
    \A o \in 1..MaxSessions :
        obj[o].is_streaming /\ obj[o].continuous =>
            mnow - obj[o].born <= RestartDeadline + StopTimeout

\* C28: no chunk that was put on a session's queue is cleared from it by
\* the replacement of that session: it was yielded to the old session's
\* request stream or is still queued.
C28_NoChunkDiscarded ==
    \A ch \in accepted : ch \notin lost

\* C29: at most one session object of the stream_id is streaming (accepts
\* audio and hands transcripts to its callback) in every state, also while
\* create_stream is replacing a session.
C29_OneActiveSession ==
    Cardinality({o \in 1..MaxSessions : obj[o].is_streaming}) <= 1

\* C30: a send_audio call that finds 50 chunks on the queue is never
\* suspended in put and never ends with an error (the oldest chunks or the
\* new chunk are dropped instead).
C30_FullQueueNeitherBlocksNorRaises ==
    /\ \A p \in Senders : snd[p].pc # "putting"
    /\ qlast.full => ~ qlast.blocked /\ ~ qlast.raised

\* C31: the transcript callback is invoked only for results with
\* is_final = true: every on_transcript call that has finished was made for
\* a final result.
C31_CallbackOnlyForFinal ==
    tlast.stream # "none" => tlast.final

\* C37: a remove_listener call for a registered listener returns and leaves
\* the manager lock released: no call is left waiting for the lock inside
\* the manager while holding it.
C37_RemoveReleasesLock ==
    ~ blocked

\* C35: while one audio message is processed, no more than apiRetryAttempts
\* RPCs are started on any one of the three services, all retry layers
\* counted.
C35_CallsBoundedPerMessage ==
    /\ tally.stt <= ApiRetryAttempts
    /\ tally.tr <= ApiRetryAttempts
    /\ tally.tts <= ApiRetryAttempts

\* C38: the chunk of an audio message is added to the recognition buffer
\* once, however often process_pipeline is run again for the message.
C38_ChunkAddedOnce ==
    /\ tally.adds <= 1
    /\ sess[RtSession].pc # "idle" => tally.adds = 1

\* C36: the audio of the results of one speaker is handed to the broadcast
\* in the order in which the recognizer emitted the results: the audio of
\* a later result is never broadcast before that of an earlier one.
C36_BroadcastsInTranscriptOrder ==
    \A a, b \in DOMAIN broadcast_log :
        a < b => broadcast_log[a] < broadcast_log[b]

\* two results were broadcast, with a result in between that was not
C36_Witness ==
    /\ Len(broadcast_log) >= 2
    /\ broadcast_log[2] > broadcast_log[1] + 1

\* C34: an add_chunk call made while current_mode is streaming leaves the
\* buffer in buffered mode only when the buffered vote for the recent
\* chunks is strictly greater than the streaming vote, whatever the number
\* of chunks added since clear().
C34_SwitchBackNeedsMajority ==
    (ablast.before = "STREAMING" /\ ablast.after = "BUFFERED") =>
        ablast.buffered > ablast.streaming

\* ------------------------------------------------------ claims C32, C33
\* C32: when the streaming attempt of a chunk failed, process_audio_chunk
\* did not raise to its caller, handed the failure to
\* handle_processing_error once, ran the buffered path for the chunk and
\* left the stream in BUFFERED mode.
C32_StreamingFailureFallsBack ==
    hlast.streaming = "failed" =>
        /\ ~ hlast.raised
        /\ hlast.errors = 1
        /\ hlast.buffered
        /\ hlast.mode = "BUFFERED"

C32_Witness ==
    /\ hlast.streaming = "failed"
    /\ ~ hlast.raised
    /\ hlast.buffered
    /\ hlast.mode = "BUFFERED"

\* C33: a chunk the streaming session accepted without error is not put
\* through the buffered path as well, and the stream is in STREAMING mode
\* when the call ends.
C33_AcceptedChunkNotBuffered ==
    hlast.streaming = "accepted" =>
        /\ ~ hlast.buffered
        /\ hlast.mode = "STREAMING"

C40_DeadSessionReplaced == hlast.dead => hlast.created

====
